---- MODULE Spec2Model ----
(***************************************************************************)
(* fast-archiver: the concurrent create pipeline (falib.Archiver), the     *)
(* block frame codec with its running CRC64, and the extraction side       *)
(* (falib.Unarchiver with one writeFile task per open path).               *)
(*                                                                         *)
(* Paths, payloads and the archive are sequences of bytes (0..255).  A     *)
(* uint32 is kept as a pair <<high 16 bits, low 16 bits>> and a uint64 as  *)
(* its eight big-endian bytes, so that no value leaves TLC's integers.     *)
(***************************************************************************)
EXTENDS Integers, Sequences, FiniteSets, Bags, TLC

Byte == 0..255

Min(a, b) == IF a < b THEN a ELSE b

(***************************************************************************)
(* Bounds of the model.                                                    *)
(***************************************************************************)
MaxDirReaders == 2

MaxFileReaders == 2

MaxQueueSize == 2

MaxBlockSize == 2

\* The length of the longest file archived.
BigLen == 1000

(***************************************************************************)
(* hash/crc64 with the ECMA polynomial, as Archiver.archiveWriter and      *)
(* Unarchiver.Run construct it: crc64.New(crc64.MakeTable(crc64.ECMA)).    *)
(***************************************************************************)
RECURSIVE XorBits(_, _, _)
XorBits(a, b, n) ==
    IF n = 0 THEN 0
    ELSE ((a + b) % 2) + 2 * XorBits(a \div 2, b \div 2, n - 1)

XorTab == [a \in Byte |-> ([b \in Byte |-> XorBits(a, b, 8)] @@ <<>>)] @@ <<>>

XorByte(a, b) == XorTab[a][b]

\* The operators on uint64 values name their arguments through a bound
\* variable, so that an argument is evaluated once however often it is used.
Xor64(a, b) ==
    CHOOSE r \in {<<XorByte(x[1], y[1]), XorByte(x[2], y[2]), XorByte(x[3], y[3]),
                    XorByte(x[4], y[4]), XorByte(x[5], y[5]), XorByte(x[6], y[6]),
                    XorByte(x[7], y[7]), XorByte(x[8], y[8])>> :
                      x \in {a}, y \in {b}} : TRUE

Not64(a) ==
    CHOOSE r \in {<<255 - x[1], 255 - x[2], 255 - x[3], 255 - x[4],
                    255 - x[5], 255 - x[6], 255 - x[7], 255 - x[8]>> :
                      x \in {a}} : TRUE

Shr8(a) ==
    CHOOSE r \in {<<0, x[1], x[2], x[3], x[4], x[5], x[6], x[7]>> : x \in {a}} : TRUE

\* crc64.MakeTable(crc64.ECMA): entry i, as eight big-endian bytes, is i
\* shifted right eight times, xor-ing in 0xC96C5795D7870F42 on every carry.
ECMATable ==
<<
    <<0,0,0,0,0,0,0,0>>, <<179,46,76,190,3,167,95,111>>, <<244,132,54,87,168,64,160,91>>, <<71,170,122,233,171,231,255,52>>,
    <<123,208,195,132,255,143,94,51>>, <<200,254,143,58,252,40,1,92>>, <<143,84,245,211,87,207,254,104>>, <<60,122,185,109,84,104,161,7>>,
    <<247,161,135,9,255,30,188,102>>, <<68,143,203,183,252,185,227,9>>, <<3,37,177,94,87,94,28,61>>, <<176,11,253,224,84,249,67,82>>,
    <<140,113,68,141,0,145,226,85>>, <<63,95,8,51,3,54,189,58>>, <<120,245,114,218,168,209,66,14>>, <<203,219,62,100,171,118,29,97>>,
    <<125,155,161,56,81,51,102,73>>, <<206,181,237,134,82,148,57,38>>, <<137,31,151,111,249,115,198,18>>, <<58,49,219,209,250,212,153,125>>,
    <<6,75,98,188,174,188,56,122>>, <<181,101,46,2,173,27,103,21>>, <<242,207,84,235,6,252,152,33>>, <<65,225,24,85,5,91,199,78>>,
    <<138,58,38,49,174,45,218,47>>, <<57,20,106,143,173,138,133,64>>, <<126,190,16,102,6,109,122,116>>, <<205,144,92,216,5,202,37,27>>,
    <<241,234,229,181,81,162,132,28>>, <<66,196,169,11,82,5,219,115>>, <<5,110,211,226,249,226,36,71>>, <<182,64,159,92,250,69,123,40>>,
    <<251,55,66,112,162,102,204,146>>, <<72,25,14,206,161,193,147,253>>, <<15,179,116,39,10,38,108,201>>, <<188,157,56,153,9,129,51,166>>,
    <<128,231,129,244,93,233,146,161>>, <<51,201,205,74,94,78,205,206>>, <<116,99,183,163,245,169,50,250>>, <<199,77,251,29,246,14,109,149>>,
    <<12,150,197,121,93,120,112,244>>, <<191,184,137,199,94,223,47,155>>, <<248,18,243,46,245,56,208,175>>, <<75,60,191,144,246,159,143,192>>,
    <<119,70,6,253,162,247,46,199>>, <<196,104,74,67,161,80,113,168>>, <<131,194,48,170,10,183,142,156>>, <<48,236,124,20,9,16,209,243>>,
    <<134,172,227,72,243,85,170,219>>, <<53,130,175,246,240,242,245,180>>, <<114,40,213,31,91,21,10,128>>, <<193,6,153,161,88,178,85,239>>,
    <<253,124,32,204,12,218,244,232>>, <<78,82,108,114,15,125,171,135>>, <<9,248,22,155,164,154,84,179>>, <<186,214,90,37,167,61,11,220>>,
    <<113,13,100,65,12,75,22,189>>, <<194,35,40,255,15,236,73,210>>, <<133,137,82,22,164,11,182,230>>, <<54,167,30,168,167,172,233,137>>,
    <<10,221,167,197,243,196,72,142>>, <<185,243,235,123,240,99,23,225>>, <<254,89,145,146,91,132,232,213>>, <<77,119,221,44,88,35,183,186>>,
    <<100,182,43,202,235,195,135,161>>, <<215,152,103,116,232,100,216,206>>, <<144,50,29,157,67,131,39,250>>, <<35,28,81,35,64,36,120,149>>,
    <<31,102,232,78,20,76,217,146>>, <<172,72,164,240,23,235,134,253>>, <<235,226,222,25,188,12,121,201>>, <<88,204,146,167,191,171,38,166>>,
    <<147,23,172,195,20,221,59,199>>, <<32,57,224,125,23,122,100,168>>, <<103,147,154,148,188,157,155,156>>, <<212,189,214,42,191,58,196,243>>,
    <<232,199,111,71,235,82,101,244>>, <<91,233,35,249,232,245,58,155>>, <<28,67,89,16,67,18,197,175>>, <<175,109,21,174,64,181,154,192>>,
    <<25,45,138,242,186,240,225,232>>, <<170,3,198,76,185,87,190,135>>, <<237,169,188,165,18,176,65,179>>, <<94,135,240,27,17,23,30,220>>,
    <<98,253,73,118,69,127,191,219>>, <<209,211,5,200,70,216,224,180>>, <<150,121,127,33,237,63,31,128>>, <<37,87,51,159,238,152,64,239>>,
    <<238,140,13,251,69,238,93,142>>, <<93,162,65,69,70,73,2,225>>, <<26,8,59,172,237,174,253,213>>, <<169,38,119,18,238,9,162,186>>,
    <<149,92,206,127,186,97,3,189>>, <<38,114,130,193,185,198,92,210>>, <<97,216,248,40,18,33,163,230>>, <<210,246,180,150,17,134,252,137>>,
    <<159,129,105,186,73,165,75,51>>, <<44,175,37,4,74,2,20,92>>, <<107,5,95,237,225,229,235,104>>, <<216,43,19,83,226,66,180,7>>,
    <<228,81,170,62,182,42,21,0>>, <<87,127,230,128,181,141,74,111>>, <<16,213,156,105,30,106,181,91>>, <<163,251,208,215,29,205,234,52>>,
    <<104,32,238,179,182,187,247,85>>, <<219,14,162,13,181,28,168,58>>, <<156,164,216,228,30,251,87,14>>, <<47,138,148,90,29,92,8,97>>,
    <<19,240,45,55,73,52,169,102>>, <<160,222,97,137,74,147,246,9>>, <<231,116,27,96,225,116,9,61>>, <<84,90,87,222,226,211,86,82>>,
    <<226,26,200,130,24,150,45,122>>, <<81,52,132,60,27,49,114,21>>, <<22,158,254,213,176,214,141,33>>, <<165,176,178,107,179,113,210,78>>,
    <<153,202,11,6,231,25,115,73>>, <<42,228,71,184,228,190,44,38>>, <<109,78,61,81,79,89,211,18>>, <<222,96,113,239,76,254,140,125>>,
    <<21,187,79,139,231,136,145,28>>, <<166,149,3,53,228,47,206,115>>, <<225,63,121,220,79,200,49,71>>, <<82,17,53,98,76,111,110,40>>,
    <<110,107,140,15,24,7,207,47>>, <<221,69,192,177,27,160,144,64>>, <<154,239,186,88,176,71,111,116>>, <<41,193,246,230,179,224,48,27>>,
    <<201,108,87,149,215,135,15,66>>, <<122,66,27,43,212,32,80,45>>, <<61,232,97,194,127,199,175,25>>, <<142,198,45,124,124,96,240,118>>,
    <<178,188,148,17,40,8,81,113>>, <<1,146,216,175,43,175,14,30>>, <<70,56,162,70,128,72,241,42>>, <<245,22,238,248,131,239,174,69>>,
    <<62,205,208,156,40,153,179,36>>, <<141,227,156,34,43,62,236,75>>, <<202,73,230,203,128,217,19,127>>, <<121,103,170,117,131,126,76,16>>,
    <<69,29,19,24,215,22,237,23>>, <<246,51,95,166,212,177,178,120>>, <<177,153,37,79,127,86,77,76>>, <<2,183,105,241,124,241,18,35>>,
    <<180,247,246,173,134,180,105,11>>, <<7,217,186,19,133,19,54,100>>, <<64,115,192,250,46,244,201,80>>, <<243,93,140,68,45,83,150,63>>,
    <<207,39,53,41,121,59,55,56>>, <<124,9,121,151,122,156,104,87>>, <<59,163,3,126,209,123,151,99>>, <<136,141,79,192,210,220,200,12>>,
    <<67,86,113,164,121,170,213,109>>, <<240,120,61,26,122,13,138,2>>, <<183,210,71,243,209,234,117,54>>, <<4,252,11,77,210,77,42,89>>,
    <<56,134,178,32,134,37,139,94>>, <<139,168,254,158,133,130,212,49>>, <<204,2,132,119,46,101,43,5>>, <<127,44,200,201,45,194,116,106>>,
    <<50,91,21,229,117,225,195,208>>, <<129,117,89,91,118,70,156,191>>, <<198,223,35,178,221,161,99,139>>, <<117,241,111,12,222,6,60,228>>,
    <<73,139,214,97,138,110,157,227>>, <<250,165,154,223,137,201,194,140>>, <<189,15,224,54,34,46,61,184>>, <<14,33,172,136,33,137,98,215>>,
    <<197,250,146,236,138,255,127,182>>, <<118,212,222,82,137,88,32,217>>, <<49,126,164,187,34,191,223,237>>, <<130,80,232,5,33,24,128,130>>,
    <<190,42,81,104,117,112,33,133>>, <<13,4,29,214,118,215,126,234>>, <<74,174,103,63,221,48,129,222>>, <<249,128,43,129,222,151,222,177>>,
    <<79,192,180,221,36,210,165,153>>, <<252,238,248,99,39,117,250,246>>, <<187,68,130,138,140,146,5,194>>, <<8,106,206,52,143,53,90,173>>,
    <<52,16,119,89,219,93,251,170>>, <<135,62,59,231,216,250,164,197>>, <<192,148,65,14,115,29,91,241>>, <<115,186,13,176,112,186,4,158>>,
    <<184,97,51,212,219,204,25,255>>, <<11,79,127,106,216,107,70,144>>, <<76,229,5,131,115,140,185,164>>, <<255,203,73,61,112,43,230,203>>,
    <<195,177,240,80,36,67,71,204>>, <<112,159,188,238,39,228,24,163>>, <<55,53,198,7,140,3,231,151>>, <<132,27,138,185,143,164,184,248>>,
    <<173,218,124,95,60,68,136,227>>, <<30,244,48,225,63,227,215,140>>, <<89,94,74,8,148,4,40,184>>, <<234,112,6,182,151,163,119,215>>,
    <<214,10,191,219,195,203,214,208>>, <<101,36,243,101,192,108,137,191>>, <<34,142,137,140,107,139,118,139>>, <<145,160,197,50,104,44,41,228>>,
    <<90,123,251,86,195,90,52,133>>, <<233,85,183,232,192,253,107,234>>, <<174,255,205,1,107,26,148,222>>, <<29,209,129,191,104,189,203,177>>,
    <<33,171,56,210,60,213,106,182>>, <<146,133,116,108,63,114,53,217>>, <<213,47,14,133,148,149,202,237>>, <<102,1,66,59,151,50,149,130>>,
    <<208,65,221,103,109,119,238,170>>, <<99,111,145,217,110,208,177,197>>, <<36,197,235,48,197,55,78,241>>, <<151,235,167,142,198,144,17,158>>,
    <<171,145,30,227,146,248,176,153>>, <<24,191,82,93,145,95,239,246>>, <<95,21,40,180,58,184,16,194>>, <<236,59,100,10,57,31,79,173>>,
    <<39,224,90,110,146,105,82,204>>, <<148,206,22,208,145,206,13,163>>, <<211,100,108,57,58,41,242,151>>, <<96,74,32,135,57,142,173,248>>,
    <<92,48,153,234,109,230,12,255>>, <<239,30,213,84,110,65,83,144>>, <<168,180,175,189,197,166,172,164>>, <<27,154,227,3,198,1,243,203>>,
    <<86,237,62,47,158,34,68,113>>, <<229,195,114,145,157,133,27,30>>, <<162,105,8,120,54,98,228,42>>, <<17,71,68,198,53,197,187,69>>,
    <<45,61,253,171,97,173,26,66>>, <<158,19,177,21,98,10,69,45>>, <<217,185,203,252,201,237,186,25>>, <<106,151,135,66,202,74,229,118>>,
    <<161,76,185,38,97,60,248,23>>, <<18,98,245,152,98,155,167,120>>, <<85,200,143,113,201,124,88,76>>, <<230,230,195,207,202,219,7,35>>,
    <<218,156,122,162,158,179,166,36>>, <<105,178,54,28,157,20,249,75>>, <<46,24,76,245,54,243,6,127>>, <<157,54,0,75,53,84,89,16>>,
    <<43,118,159,23,207,17,34,56>>, <<152,88,211,169,204,182,125,87>>, <<223,242,169,64,103,81,130,99>>, <<108,220,229,254,100,246,221,12>>,
    <<80,166,92,147,48,158,124,11>>, <<227,136,16,45,51,57,35,100>>, <<164,34,106,196,152,222,220,80>>, <<23,12,38,122,155,121,131,63>>,
    <<220,215,24,30,48,15,158,94>>, <<111,249,84,160,51,168,193,49>>, <<40,83,46,73,152,79,62,5>>, <<155,125,98,247,155,232,97,106>>,
    <<167,7,219,154,207,128,192,109>>, <<20,41,151,36,204,39,159,2>>, <<83,131,237,205,103,192,96,54>>, <<224,173,161,115,100,103,63,89>>
>>

crc64Table == [i \in Byte |-> ECMATable[i + 1]] @@ <<>>

crc64Step(crc, b) ==
    CHOOSE r \in {Xor64(crc64Table[XorByte(c[8], b)], Shr8(c)) : c \in {crc}} : TRUE

RECURSIVE crc64Fold(_, _, _, _)
crc64Fold(crc, p, lo, hi) ==
    IF lo > hi THEN crc
    ELSE IF lo = hi THEN crc64Step(crc, p[lo])
    ELSE CHOOSE r \in {crc64Fold(c, p, ((lo + hi) \div 2) + 1, hi) :
                        c \in {crc64Fold(crc, p, lo, (lo + hi) \div 2)}} : TRUE

\* A variant of the digest that takes no byte in.
crc64UpdateNothing(crc, p) == crc

\* crc64.update: the digest is complemented, run through the table byte by
\* byte, and complemented again.
crc64Update(crc, p) ==
    CHOOSE r \in {Not64(crc64Fold(Not64(c), q, 1, Len(q))) : c \in {crc}, q \in {p}} : TRUE

Zero64 == <<0, 0, 0, 0, 0, 0, 0, 0>>

\* crc64.Checksum of a whole byte sequence, from a fresh digest.
crc64Checksum(p) == crc64Update(Zero64, p)

(***************************************************************************)
(* encoding/binary, big endian, as writeBlock and Unarchiver.Run use it.   *)
(***************************************************************************)
\* The size of the buffer of bufio.NewReader(file).
defaultBufSize == 4096

\* math.MaxUint16
MaxUint16 == 65535

\* uint16(n) of a non-negative int or uint.
Uint16(n) == n % (MaxUint16 + 1)

U16Bytes(n) == <<(n \div 256) % 256, n % 256>>

BytesU16(b) == b[1] * 256 + b[2]

\* int -> uint32, as uint32(b.uid): a pair <<high 16 bits, low 16 bits>>.
ToU32(n) == <<(n \div 65536) % 65536, n % 65536>>

U32Bytes(v) == <<v[1] \div 256, v[1] % 256, v[2] \div 256, v[2] % 256>>

BytesU32(b) == <<b[1] * 256 + b[2], b[3] * 256 + b[4]>>

\* os.FileMode is a uint32: os.ModeDir is bit 31, the permission bits are
\* the low nine.
ModeDirBit == 32768

FileMode(isDir, perm) == <<IF isDir THEN ModeDirBit ELSE 0, perm>>

ModePerm(mode) == mode[2] % 512

\* a &^ b on nine-bit permission values (the process umask).
RECURSIVE AndNotBits(_, _, _)
AndNotBits(a, b, n) ==
    IF n = 0 THEN 0
    ELSE (IF a % 2 = 1 /\ b % 2 = 0 THEN 1 ELSE 0)
         + 2 * AndNotBits(a \div 2, b \div 2, n - 1)

(***************************************************************************)
(* Block types (block.go) and the archive header.                          *)
(***************************************************************************)
blockTypeData == 0

blockTypeStartOfFile == 1

blockTypeEndOfFile == 2

blockTypeDirectory == 3

blockTypeChecksum == 4

fastArchiverHeader == <<137, 70, 65, 49, 13, 10, 26, 10>>

\* The archive writer interleaves a checksum block every 1000 blocks.
ChecksumInterval == 1000

Slash == 47

\* The wildcards of filepath.Match.
Star == 42

Question == 63

\* A variant that takes no path for absolute.
HasNoPrefix(path) == FALSE

\* strings.HasPrefix(path, "/")
HasPrefixSlash(path) == Len(path) > 0 /\ path[1] = Slash

\* filepath.Join(directoryPath, fileName) for a clean relative directory
\* path and a single entry name: the two joined by one separator.
Join(directoryPath, fileName) == directoryPath \o <<Slash>> \o fileName

Zeros(n) == [i \in 1..n |-> 0]

\* The block struct of block.go.
Block(filePath, numBytes, buffer, type, uid, gid, mode) ==
    [filePath |-> filePath, numBytes |-> numBytes, buffer |-> buffer,
     blockType |-> type, uid |-> uid, gid |-> gid, mode |-> mode]

\* (b *block) writeBlock: the bytes it writes to output.
writeBlock(b) ==
    U16Bytes(Len(b.filePath)) \o b.filePath \o <<b.blockType>> \o
    (IF b.blockType \in {blockTypeDirectory, blockTypeStartOfFile}
       THEN U32Bytes(ToU32(b.uid)) \o U32Bytes(ToU32(b.gid)) \o U32Bytes(b.mode)
     ELSE IF b.blockType = blockTypeData
       THEN U16Bytes(b.numBytes) \o SubSeq(b.buffer, 1, b.numBytes)
     ELSE <<>>)

\* writeChecksumBlock: zero path length, the type tag, then hash.Sum64().
\* The first three bytes pass through the MultiWriter into the hash before
\* Sum64 is taken; the value itself is hashed as it is written.
ChecksumFraming == U16Bytes(0) \o <<blockTypeChecksum>>

\* A variant that takes Sum64 before the framing has reached the hash.
writeChecksumBlockEarlySum(hash) ==
    ChecksumFraming \o crc64Update(hash, <<>>)

writeChecksumBlock(hash) ==
    ChecksumFraming \o crc64Update(hash, ChecksumFraming)

\* The hash once writeChecksumBlock has run: every byte of the checksum
\* block went through the MultiWriter, the value included.
hashChecksumBlock(hash) ==
    crc64Update(hash, writeChecksumBlock(hash))

(***************************************************************************)
(* The trees that are archived.  An entry is a directory (with its entry   *)
(* names in readdir order), a regular file (with its bytes) or a symlink. *)
(***************************************************************************)
nA == <<97>>

nB == <<98>>

nC == <<99>>

nD == <<100>>

nE == <<101>>

pA == nA

pAB == Join(pA, nB)

pAD == Join(pA, nD)

pAE == Join(pA, nE)

pADC == Join(pAD, nC)

pADE == Join(pAD, nE)

DirEntry(names, uid, gid, perm) ==
    [kind |-> "dir", names |-> names, data |-> <<>>,
     uid |-> uid, gid |-> gid, perm |-> perm]

FileEntry(data, uid, gid, perm) ==
    [kind |-> "file", names |-> <<>>, data |-> data,
     uid |-> uid, gid |-> gid, perm |-> perm]

\* a/b = "hi", a/d/c = "x"
TreeFiles ==
    (pA :> DirEntry(<<nB, nD>>, 1000, 100, 493)) @@
    (pAB :> FileEntry(<<104, 105>>, 1000, 100, 420)) @@
    (pAD :> DirEntry(<<nC>>, 1001, 100, 448)) @@
    (pADC :> FileEntry(<<120>>, 1001, 0, 384))

\* a/b = "hi" only
TreeOneFile ==
    (pA :> DirEntry(<<nB>>, 1000, 100, 493)) @@
    (pAB :> FileEntry(<<104, 105>>, 1000, 100, 420))

\* a/ with nothing in it
TreeEmpty == (pA :> DirEntry(<<>>, 1000, 100, 493))

\* directories only: a/d, a/e
TreeTwoDirs ==
    (pA :> DirEntry(<<nD, nE>>, 0, 0, 493)) @@
    (pAD :> DirEntry(<<>>, 0, 0, 493)) @@
    (pAE :> DirEntry(<<>>, 0, 0, 493))

\* directories only: a/d/e
TreeDeep ==
    (pA :> DirEntry(<<nD>>, 0, 0, 493)) @@
    (pAD :> DirEntry(<<nE>>, 0, 0, 493)) @@
    (pADE :> DirEntry(<<>>, 0, 0, 493))

\* "/a", an absolute directory argument
pSlashA == <<Slash>> \o nA

\* a/b = "hi", and the directory /a
TreeAbsolute ==
    TreeOneFile @@ (pSlashA :> DirEntry(<<>>, 0, 0, 493))

\* "c.pid"
nCPid == <<99, 46, 112, 105, 100>>

pACPid == Join(pA, nCPid)

\* a/b = "hi", a/c.pid = "x"
TreePid ==
    (pA :> DirEntry(<<nB, nCPid>>, 1000, 100, 493)) @@
    (pAB :> FileEntry(<<104, 105>>, 1000, 100, 420)) @@
    (pACPid :> FileEntry(<<120>>, 1000, 100, 420))

\* A symbolic link: os.Lstat reports os.ModeSymlink; os.Open would follow
\* it to the bytes of its target.
SymlinkEntry(data) ==
    [kind |-> "symlink", names |-> <<>>, data |-> data,
     uid |-> 0, gid |-> 0, perm |-> 511]

\* a/b = "hi", a/c -> b, a/d/, a/d/e -> ../b
TreeSymlink ==
    (pA :> DirEntry(<<nC, nB, nD>>, 1000, 100, 493)) @@
    (pAB :> FileEntry(<<104, 105>>, 1000, 100, 420)) @@
    (Join(pA, nC) :> SymlinkEntry(<<104, 105>>)) @@
    (pAD :> DirEntry(<<nE>>, 1000, 100, 493)) @@
    (pADE :> SymlinkEntry(<<104, 105>>))

\* a/b of BigLen bytes: read one byte at a time it takes the archive past
\* its first interleaved checksum block.
TreeBig ==
    (pA :> DirEntry(<<nB>>, 0, 0, 493)) @@
    (pAB :> FileEntry([i \in 1..BigLen |-> i % 251], 0, 0, 420))

\* a/b of such a length that the archive has exactly ChecksumInterval
\* blocks before its checksum blocks: Directory, StartOfFile, one Data block
\* per byte, EndOfFile.
TreeExact ==
    (pA :> DirEntry(<<nB>>, 0, 0, 493)) @@
    (pAB :> FileEntry([i \in 1..(ChecksumInterval - 3) |-> i % 251], 0, 0, 420))

\* a/b of n bytes
TreeOfSize(n) ==
    (pA :> DirEntry(<<nB>>, 0, 0, 493)) @@
    (pAB :> FileEntry([i \in 1..n |-> i % 251], 0, 0, 420))

\* a/b one byte longer than the largest block.
TreeWide ==
    (pA :> DirEntry(<<nB>>, 0, 0, 493)) @@
    (pAB :> FileEntry([i \in 1..(MaxUint16 + 1) |-> i % 251], 0, 0, 420))

(***************************************************************************)
(* A scenario: the tree on disk, the seed directories given to AddDir, the *)
(* configuration of the Archiver and of the Unarchiver, and the I/O        *)
(* failures the environment produces.  readErrAt maps a file to the number *)
(* of bytes that can be read before read(2) fails; outputAccepts is empty, *)
(* or holds the number of bytes the output file takes before write(2)      *)
(* fails; readdirErr maps a directory to the number of its names that      *)
(* Readdirnames returns before a call of it fails, and to whether the      *)
(* calls after the failed one fail as well.                                *)
(***************************************************************************)
NoReadErrors == <<>>

NoReaddirErrors == <<>>

ReaddirError(after, persists) == [after |-> after, persists |-> persists]

Scenario(tree, seeds, dirReaders, fileReaders, queueSize, blockSize) ==
    [tree |-> tree, seeds |-> seeds,
     DirReaderCount |-> dirReaders, FileReaderCount |-> fileReaders,
     DirScanQueueSize |-> queueSize, FileReadQueueSize |-> queueSize,
     BlockQueueSize |-> queueSize, BlockSize |-> blockSize,
     hasStatT |-> TRUE, readErrAt |-> NoReadErrors, openFail |-> {},
     readdirErr |-> NoReaddirErrors,
     outputAccepts |-> <<>>,
     IgnorePerms |-> FALSE, IgnoreOwners |-> FALSE, DryRun |-> FALSE,
     umask |-> 0, ExcludePatterns |-> <<>>]

\* One tree and seed list under every pool size, queue size and block size
\* of the bounds, each varied on its own and all at their maximum.
Configurations(tree, seeds) ==
    {Scenario(tree, seeds, k, 1, 1, MaxBlockSize) : k \in 1..MaxDirReaders} \cup
    {Scenario(tree, seeds, 1, k, 1, MaxBlockSize) : k \in 1..MaxFileReaders} \cup
    {Scenario(tree, seeds, 1, 1, k, MaxBlockSize) : k \in 1..MaxQueueSize} \cup
    {Scenario(tree, seeds, 1, 1, 1, k) : k \in 1..MaxBlockSize} \cup
    {Scenario(tree, seeds, MaxDirReaders, MaxFileReaders, MaxQueueSize, 1)}

\* Seeds that are top-level directories, no seed given twice or lying under
\* another: the plain use of the tool.
PlainScenarios ==
    Configurations(TreeFiles, <<pA>>) \cup
    {Scenario(TreeTwoDirs, <<pA>>, k, 1, 1, 1) : k \in 1..MaxDirReaders} \cup
    {[Scenario(TreeFiles, <<pA>>, 1, MaxFileReaders, 1, 1)
        EXCEPT !.readErrAt = (pAB :> 1)],
     [Scenario(TreeOneFile, <<pA>>, 1, 1, 1, 1)
        EXCEPT !.readErrAt = (pAB :> 0)],
     [Scenario(TreeOneFile, <<pA>>, 1, 1, 1, MaxBlockSize) EXCEPT !.IgnorePerms = TRUE],
     [Scenario(TreeOneFile, <<pA>>, 1, 1, 1, MaxBlockSize) EXCEPT !.IgnoreOwners = TRUE],
     [Scenario(TreeOneFile, <<pA>>, 1, 1, 1, MaxBlockSize) EXCEPT !.hasStatT = FALSE]}

\* Seed lists the command line equally accepts: a seed below the top level,
\* the same seed twice, a seed that lies under another seed.
SeedScenarios ==
    {Scenario(TreeFiles, <<pAD>>, 1, 1, 1, MaxBlockSize),
     Scenario(TreeOneFile, <<pA, pA>>, MaxDirReaders, MaxFileReaders, 2, MaxBlockSize),
     Scenario(TreeDeep, <<pA, pADE>>, MaxDirReaders, 1, 2, 1)}

\* An absolute directory among the arguments: alone, before and after a
\* relative one.
AbsoluteScenarios ==
    {Scenario(TreeAbsolute, <<pSlashA>>, 1, 1, 1, MaxBlockSize),
     Scenario(TreeAbsolute, <<pSlashA, pA>>, MaxDirReaders, 1, 2, MaxBlockSize),
     Scenario(TreeAbsolute, <<pA, pSlashA>>, 1, 1, 2, MaxBlockSize)}

\* --exclude with a glob for the full child path, "a/*.pid", and with the
\* glob "*.pid".
ExcludeScenarios ==
    {[Scenario(TreePid, <<pA>>, 1, 1, 1, MaxBlockSize)
        EXCEPT !.ExcludePatterns = <<pA \o <<Slash, Star>> \o SubSeq(nCPid, 2, 5)>>],
     [Scenario(TreePid, <<pA>>, 1, 1, 1, MaxBlockSize)
        EXCEPT !.ExcludePatterns = <<<<Star>> \o SubSeq(nCPid, 2, 5)>>]}

\* A tree with symbolic links in the seed directory and below it.
SymlinkScenarios ==
    {Scenario(TreeSymlink, <<pA>>, k, 1, 1, MaxBlockSize) : k \in 1..MaxDirReaders}

\* The tiny trees, a/ empty and a/b = "hi", with a block that takes the
\* whole file, under every pool and queue size.
TinyScenarios ==
    {Scenario(tree, <<pA>>, d, f, q, MaxBlockSize) :
        tree \in {TreeEmpty, TreeOneFile}, d \in 1..MaxDirReaders,
        f \in 1..MaxFileReaders, q \in 1..MaxQueueSize}

\* An archive of more than ChecksumInterval blocks.
BigScenarios ==
    {Scenario(TreeBig, <<pA>>, 1, 1, 1, 1), Scenario(TreeExact, <<pA>>, 1, 1, 1, 1)}

SmallScenarios ==
    PlainScenarios \cup SeedScenarios \cup AbsoluteScenarios \cup ExcludeScenarios
        \cup SymlinkScenarios \cup TinyScenarios

Scenarios == SmallScenarios \cup BigScenarios

\* os.Open fails (EACCES, or ENOENT for an entry removed since it was
\* listed or for an argument that does not exist): for a file, for a
\* subdirectory, for both, for the seed.
OpenFailScenarios ==
    {[Scenario(TreeFiles, <<pA>>, 1, 1, 1, MaxBlockSize) EXCEPT !.openFail = {pAB}],
     [Scenario(TreeFiles, <<pA>>, 1, 1, 1, MaxBlockSize) EXCEPT !.openFail = {pAD}],
     [Scenario(TreeFiles, <<pA>>, MaxDirReaders, MaxFileReaders, 2, MaxBlockSize)
        EXCEPT !.openFail = {pAB, pAD}],
     [Scenario(TreeFiles, <<pA>>, 1, 1, 1, MaxBlockSize) EXCEPT !.openFail = {pA}],
     [Scenario(TreeFiles, <<pA>>, 1, 1, 1, MaxBlockSize) EXCEPT !.openFail = {pADC}],
     Scenario(TreeOneFile, <<pAE>>, 1, 1, 1, MaxBlockSize),
     Scenario(TreeOneFile, <<pAE, pA>>, 1, 1, 2, MaxBlockSize),
     [Scenario(TreeFiles, <<pA, pAD>>, 1, 1, 2, MaxBlockSize) EXCEPT !.openFail = {pA}]}

\* A call of dir.Readdirnames fails with an error other than io.EOF (EIO,
\* say): at once or after the first name, once or on every later call too.
ReaddirFailScenarios ==
    {[Scenario(TreeFiles, <<pA>>, d, 1, 1, MaxBlockSize)
        EXCEPT !.readdirErr = (dir :> ReaddirError(after, persists))] :
        d \in 1..MaxDirReaders, dir \in {pA, pAD}, after \in 0..1, persists \in BOOLEAN}

\* main with --block-size 65535, the largest value it accepts:
\* archiver.BlockSize = uint16(*requestedBlockSize)
WideBlockScenarios ==
    {Scenario(TreeOneFile, <<pA>>, 1, 1, 1, Uint16(MaxUint16)),
     Scenario(TreeWide, <<pA>>, 1, 1, 1, Uint16(MaxUint16))}

\* --block-size B and a file of B + 1 bytes: for the small sizes, around
\* the size of bufio's buffer, and for the largest size.
SplitBlockSizes ==
    (1..MaxBlockSize) \cup {defaultBufSize - 1, defaultBufSize, defaultBufSize + 1}
        \cup {MaxUint16}

SplitScenarios ==
    {Scenario(TreeOfSize(size + 1), <<pA>>, 1, 1, 1, Uint16(size)) : size \in SplitBlockSizes}

\* An output that takes only so many bytes (a full disk, a closed pipe):
\* archives shorter than bufio's buffer, which reach the file in the Flush
\* of Run, and an archive with a Data block that does not fit the buffer.
WriteFailScenarios ==
    {[Scenario(TreeOneFile, <<pA>>, 1, 1, 1, MaxBlockSize) EXCEPT !.outputAccepts = <<k>>] :
        k \in {0, 8, 20}} \cup
    {[Scenario(TreeOfSize(defaultBufSize + 1), <<pA>>, 1, 1, 1, defaultBufSize)
        EXCEPT !.outputAccepts = <<20>>]}

VARIABLES
    cfg,            \* the scenario
    \* ---- create: falib.Archiver
    mpc,            \* where main / Archiver.Run is
    seedIx,         \* how many seeds AddDir has enqueued
    directoryScanQueue, fileReadQueue, blockQueue,
    closed,         \* the queues the supervisor has closed
    workInProgress, \* the sync.WaitGroup counter
    pendingSends,   \* bag: paths held by the decoupled send goroutines
    scanners,       \* bag: local states of the directoryScanner goroutines
    readers,        \* bag: local states of the fileReader goroutines
    supervisor,     \* where the closing goroutine of Run is
    hash,           \* the crc64 digest the MultiWriter feeds
    output,         \* the bytes written to a.output
    sink,           \* the bufio.Writer a.output and the file under it
    written,        \* the blocks written so far, in order (history)
    blockCount,
    aerror,         \* a.error
    runResult,      \* what Archiver.Run returned
    \* ---- extract: falib.Unarchiver
    upc,            \* where Unarchiver.Run is
    input,          \* the bytes of the input stream
    tamperedAt,     \* which of them differs from what create wrote (0: none)
    rpos,           \* how many of them the reader has consumed
    rhash,          \* hashingReader.hasher
    fileOutputChan, \* path -> index of its channel
    writers,        \* per channel: its buffer, closed flag and writeFile state
    uwip,           \* the WaitGroup of Unarchiver.Run
    uresult,        \* what Unarchiver.Run returned
    fs              \* the filesystem extraction writes into

createVars ==
    <<mpc, seedIx, directoryScanQueue, fileReadQueue, blockQueue, closed,
      workInProgress, pendingSends, scanners, readers, supervisor, hash,
      output, sink, written, blockCount, aerror, runResult>>

extractVars ==
    <<upc, input, tamperedAt, rpos, rhash, fileOutputChan, writers, uwip, uresult, fs>>

vars == <<cfg, createVars, extractVars>>

NoFunction == <<>>

\* bufio.NewWriter(output) over the file main opened: n bytes are held in
\* the buffer, err is the error the Writer keeps once a write has failed,
\* and file counts the bytes the file has taken.
NewWriter == [n |-> 0, err |-> "nil", file |-> 0]

InitFrom(scenarios) ==
    /\ cfg \in scenarios
    /\ mpc = "addDir"
    /\ seedIx = 0
    /\ directoryScanQueue = <<>>
    /\ fileReadQueue = <<>>
    /\ blockQueue = <<>>
    /\ closed = {}
    /\ workInProgress = 0
    /\ pendingSends = EmptyBag
    /\ scanners = EmptyBag
    /\ readers = EmptyBag
    /\ supervisor = "notStarted"
    /\ hash = Zero64
    /\ output = <<>>
    /\ sink = NewWriter
    /\ written = <<>>
    /\ blockCount = 0
    /\ aerror = "nil"
    /\ runResult = "running"
    /\ upc = "notStarted"
    /\ input = <<>>
    /\ rpos = 0
    /\ rhash = Zero64
    /\ fileOutputChan = NoFunction
    /\ writers = <<>>
    /\ uwip = 0
    /\ uresult = "running"
    /\ fs = NoFunction
    /\ tamperedAt = 0

Init == InitFrom(Scenarios)

(***************************************************************************)
(* Create: falib.Archiver.                                                 *)
(***************************************************************************)
Tree == cfg.tree

Replace(bag, old, new) == (bag (-) SetToBag({old})) (+) SetToBag({new})

Copies(n, x) == IF n = 0 THEN EmptyBag ELSE [e \in {x} |-> n]

\* Local state of a directoryScanner goroutine: at the range over the
\* queue ("recv"), blocked sending the Directory block, between two entries
\* of the directory it scans, or blocked sending a file path.
ScannerState(pc, dir, i) == [pc |-> pc, dir |-> dir, i |-> i]

ScannerIdle == ScannerState("recv", <<>>, 0)

ScannerExited == ScannerState("exit", <<>>, 0)

\* Local state of a fileReader goroutine; for "sendData", off is what was
\* read before this buffer and n the bytes read into it.
ReaderState(pc, path, off, n) == [pc |-> pc, path |-> path, off |-> off, n |-> n]

ReaderIdle == ReaderState("recv", <<>>, 0, 0)

ReaderExited == ReaderState("exit", <<>>, 0, 0)

\* readdirnames: the names that the goroutine sends on the channel.  A call
\* of Readdirnames that fails is logged, the names it returned are sent and
\* Readdirnames is called again.
ReaddirNames(dir) ==
    IF dir \in DOMAIN cfg.readdirErr /\ cfg.readdirErr[dir].persists
      THEN SubSeq(Tree[dir].names, 1, Min(cfg.readdirErr[dir].after, Len(Tree[dir].names)))
      ELSE Tree[dir].names

\* readdirnames: the channel is closed once Readdirnames has returned
\* io.EOF; while every call fails the goroutine goes round its loop.
ReaddirCloses(dir) ==
    ~(dir \in DOMAIN cfg.readdirErr /\ cfg.readdirErr[dir].persists)

\* A variant that takes only a missing path for a failure.
OpenFailsWhenMissing(path) == path \notin DOMAIN Tree

\* os.Open(path)
OpenFails(path) == path \notin DOMAIN Tree \/ path \in cfg.openFail

\* getModeOwnership where syscall.Stat_t is available: uid, gid and mode of
\* the open file.
getModeOwnershipStatT(path) ==
    [uid |-> Tree[path].uid, gid |-> Tree[path].gid,
     mode |-> FileMode(Tree[path].kind = "dir", Tree[path].perm)]

\* (a *Archiver) getModeOwnership as built without syscall.Stat_t: uid and
\* gid stay zero.
getModeOwnershipPortable(path) ==
    [uid |-> 0, gid |-> 0,
     mode |-> FileMode(Tree[path].kind = "dir", Tree[path].perm)]

getModeOwnership(path) ==
    IF cfg.hasStatT THEN getModeOwnershipStatT(path)
    ELSE getModeOwnershipPortable(path)

\* a.excludePatterns, the field directoryScanner reads: nothing assigns it.
excludePatterns == <<>>

\* filepath.Match for patterns of literal bytes, '*' and '?'.
RECURSIVE Match(_, _)
Match(pattern, name) ==
    IF pattern = <<>> THEN name = <<>>
    ELSE IF pattern[1] = Star
      THEN Match(Tail(pattern), name)
           \/ (name # <<>> /\ name[1] # Slash /\ Match(pattern, Tail(name)))
    ELSE IF name = <<>> THEN FALSE
    ELSE /\ \/ pattern[1] = name[1]
            \/ pattern[1] = Question /\ name[1] # Slash
         /\ Match(Tail(pattern), Tail(name))

excludeFile(filePath) ==
    \E k \in 1..Len(excludePatterns) : Match(excludePatterns[k], filePath)

\* How far a file can be read: to its end, or to where read(2) fails.
ReadLimit(path) ==
    IF path \in DOMAIN cfg.readErrAt THEN cfg.readErrAt[path]
    ELSE Len(Tree[path].data)

\* A variant that hands out all that bufio's buffer holds, whatever the
\* length of the caller's buffer.
BytesReadAllBuffered(size, limit, off) ==
    IF off >= limit THEN 0
    ELSE Min(limit, ((off \div defaultBufSize) + 1) * defaultBufSize) - off

\* How many bytes bufferedFile.Read(buffer) returns with len(buffer) = size
\* when off bytes of a file of limit readable bytes were returned before.
\* A buffer of defaultBufSize bytes or more is read into directly; a
\* smaller one is served from bufio's buffer, which is refilled with up to
\* defaultBufSize bytes each time it is empty, so a Read never crosses a
\* multiple of defaultBufSize.
BytesRead(size, limit, off) ==
    IF off >= limit THEN 0
    ELSE IF size >= defaultBufSize THEN Min(size, limit - off)
    ELSE Min(size, Min(limit, ((off \div defaultBufSize) + 1) * defaultBufSize) - off)

\* A variant that gives the file up on a read error, without EndOfFile.
AfterReadErrorReturns(path, off) ==
    IF off < ReadLimit(path)
      THEN ReaderState("sendData", path, off,
                       BytesRead(cfg.BlockSize, ReadLimit(path), off))
    ELSE IF path \in DOMAIN cfg.readErrAt THEN ReaderState("recv", <<>>, 0, 0)
    ELSE ReaderState("sendEnd", path, 0, 0)

\* A variant whose Read returns all that is left of the file, whatever the
\* length of the buffer.
AfterReadWholeFile(path, off) ==
    IF off < ReadLimit(path)
      THEN ReaderState("sendData", path, off, ReadLimit(path) - off)
      ELSE ReaderState("sendEnd", path, 0, 0)

\* fileReader after a send: the next bufferedFile.Read(buffer); with nothing
\* left it returns io.EOF or the read error, and the loop breaks.
AfterRead(path, off) ==
    IF off < ReadLimit(path)
      THEN ReaderState("sendData", path, off,
                       BytesRead(cfg.BlockSize, ReadLimit(path), off))
      ELSE ReaderState("sendEnd", path, 0, 0)

DirectoryBlock(path) ==
    LET o == getModeOwnership(path)
    IN Block(path, 0, <<>>, blockTypeDirectory, o.uid, o.gid, o.mode)

StartOfFileBlock(path) ==
    LET o == getModeOwnership(path)
    IN Block(path, 0, <<>>, blockTypeStartOfFile, o.uid, o.gid, o.mode)

\* buffer := make([]byte, a.BlockSize), filled with the bytes read.
DataBlock(path, off, n) ==
    Block(path, Uint16(n),
          SubSeq(Tree[path].data, off + 1, off + n) \o Zeros(cfg.BlockSize - n),
          blockTypeData, 0, 0, FileMode(FALSE, 0))

EndOfFileBlock(path) ==
    Block(path, 0, <<>>, blockTypeEndOfFile, 0, 0, FileMode(FALSE, 0))

ChecksumBlock(sum) ==
    Block(<<>>, 0, sum, blockTypeChecksum, 0, 0, FileMode(FALSE, 0))

\* outputFile.Write of len bytes: the file takes what it has room for, and
\* the write fails when that is not all.
FileWrite(w, len) ==
    LET room == IF cfg.outputAccepts = <<>> THEN len
                ELSE Min(len, cfg.outputAccepts[1] - w.file)
    IN [taken |-> room, err |-> IF room = len THEN "nil" ELSE "ENOSPC"]

\* (b *Writer) Flush
Flush(w) ==
    IF w.err # "nil" \/ w.n = 0 THEN w
    ELSE LET r == FileWrite(w, w.n)
         IN [n |-> w.n - r.taken, err |-> r.err, file |-> w.file + r.taken]

\* (b *Writer) Write(p) with len(p) = len: while p does not fit into what
\* is free of the buffer, an empty buffer is passed by and a used one is
\* filled up and flushed; what is left is copied into the buffer.
RECURSIVE BufioWrite(_, _)
BufioWrite(w, len) ==
    IF w.err # "nil" THEN w
    ELSE IF len <= defaultBufSize - w.n THEN [w EXCEPT !.n = @ + len]
    ELSE IF w.n = 0
      THEN LET r == FileWrite(w, len)
           IN [w EXCEPT !.err = r.err, !.file = @ + r.taken]
    ELSE BufioWrite(Flush([w EXCEPT !.n = defaultBufSize]),
                    len - (defaultBufSize - w.n))

\* The Write calls of the given lengths in turn, up to the first that fails.
RECURSIVE WriteAll(_, _)
WriteAll(w, lens) ==
    IF lens = <<>> \/ w.err # "nil" THEN w
    ELSE WriteAll(BufioWrite(w, Head(lens)), Tail(lens))

\* The lengths of the Write calls of (b *block) writeBlock, and of
\* writeChecksumBlock: binary.Write makes one call per value.
WriteLengths(b) ==
    <<2, Len(b.filePath), 1>> \o
    (IF b.blockType \in {blockTypeDirectory, blockTypeStartOfFile} THEN <<4, 4, 4>>
     ELSE IF b.blockType = blockTypeData THEN <<2, b.numBytes>>
     ELSE <<>>)

ChecksumWriteLengths == <<2, 1, 8>>

\* A send on a buffered channel goes through when the buffer has room.
HasRoom(queue, size) == Len(queue) < size

\* Archiver.AddDir, called by main once per argument before Run.
AddDir ==
    /\ mpc = "addDir"
    /\ seedIx < Len(cfg.seeds)
    /\ HasRoom(directoryScanQueue, cfg.DirScanQueueSize)
    /\ workInProgress' = workInProgress + 1
    /\ directoryScanQueue' = Append(directoryScanQueue, cfg.seeds[seedIx + 1])
    /\ seedIx' = seedIx + 1
    /\ UNCHANGED <<cfg, mpc, fileReadQueue, blockQueue, closed, pendingSends,
                   scanners, readers, supervisor, hash, output, sink, written,
                   blockCount, aerror, runResult, extractVars>>

\* Archiver.Run up to the call of archiveWriter, and archiveWriter writing
\* the header through the MultiWriter into a.output and the hash.
RunStart ==
    /\ mpc = "addDir"
    /\ seedIx = Len(cfg.seeds)
    /\ aerror' = "nil"
    /\ scanners' = Copies(cfg.DirReaderCount, ScannerIdle)
    /\ readers' = Copies(cfg.FileReaderCount, ReaderIdle)
    /\ supervisor' = "wait"
    /\ output' = output \o fastArchiverHeader
    /\ sink' = BufioWrite(sink, Len(fastArchiverHeader))
    /\ hash' = crc64Update(hash, fastArchiverHeader)
    /\ mpc' = "loop"
    /\ UNCHANGED <<cfg, seedIx, directoryScanQueue, fileReadQueue, blockQueue,
                   closed, workInProgress, pendingSends, written, blockCount,
                   runResult, extractVars>>

\* A variant of directoryScanner without the absolute-path check.
ScannerRecvAcceptsAbsolute ==
    /\ BagIn(ScannerIdle, scanners)
    /\ IF directoryScanQueue # <<>>
         THEN LET directoryPath == Head(directoryScanQueue) IN
              /\ directoryScanQueue' = Tail(directoryScanQueue)
              /\ IF OpenFails(directoryPath)
                   THEN /\ workInProgress' = workInProgress - 1
                        /\ UNCHANGED <<scanners, aerror>>
                 ELSE /\ scanners' = Replace(scanners, ScannerIdle,
                                 ScannerState("sendDirectory", directoryPath, 0))
                      /\ UNCHANGED <<workInProgress, aerror>>
         ELSE /\ "directoryScanQueue" \in closed
              /\ scanners' = Replace(scanners, ScannerIdle, ScannerExited)
              /\ UNCHANGED <<directoryScanQueue, workInProgress, aerror>>
    /\ UNCHANGED <<cfg, mpc, seedIx, fileReadQueue, blockQueue, closed,
                   pendingSends, readers, supervisor, hash, output, sink, written,
                   blockCount, runResult, extractVars>>

\* directoryScanner: the range over directoryScanQueue, the absolute-path
\* check and os.Open.
ScannerRecv ==
    /\ BagIn(ScannerIdle, scanners)
    /\ IF directoryScanQueue # <<>>
         THEN LET directoryPath == Head(directoryScanQueue) IN
              /\ directoryScanQueue' = Tail(directoryScanQueue)
              /\ IF HasPrefixSlash(directoryPath)
                   THEN /\ aerror' = "ErrAbsoluteDirectoryPath"
                        /\ workInProgress' = workInProgress - 1
                        /\ UNCHANGED scanners
                 ELSE IF OpenFails(directoryPath)
                   THEN /\ workInProgress' = workInProgress - 1
                        /\ UNCHANGED <<scanners, aerror>>
                 ELSE /\ scanners' = Replace(scanners, ScannerIdle,
                                 ScannerState("sendDirectory", directoryPath, 0))
                      /\ UNCHANGED <<workInProgress, aerror>>
         ELSE /\ "directoryScanQueue" \in closed
              /\ scanners' = Replace(scanners, ScannerIdle, ScannerExited)
              /\ UNCHANGED <<directoryScanQueue, workInProgress, aerror>>
    /\ UNCHANGED <<cfg, mpc, seedIx, fileReadQueue, blockQueue, closed,
                   pendingSends, readers, supervisor, hash, output, sink, written,
                   blockCount, runResult, extractVars>>

\* A variant that goes on to the entries without sending the Directory
\* block.
ScannerSendDirectoryNoBlock ==
    \E s \in BagToSet(scanners) :
        /\ s.pc = "sendDirectory"
        /\ scanners' = Replace(scanners, s, ScannerState("entries", s.dir, 1))
        /\ UNCHANGED <<cfg, mpc, seedIx, directoryScanQueue, fileReadQueue, blockQueue,
                       closed, workInProgress, pendingSends, readers, supervisor, hash,
                       output, sink, written, blockCount, aerror, runResult, extractVars>>

\* directoryScanner: a.blockQueue <- block{directoryPath, ..., blockTypeDirectory, ...}
ScannerSendDirectory ==
    \E s \in BagToSet(scanners) :
        /\ s.pc = "sendDirectory"
        /\ HasRoom(blockQueue, cfg.BlockQueueSize)
        /\ blockQueue' = Append(blockQueue, DirectoryBlock(s.dir))
        /\ scanners' = Replace(scanners, s, ScannerState("entries", s.dir, 1))
        /\ UNCHANGED <<cfg, mpc, seedIx, directoryScanQueue, fileReadQueue, closed,
                       workInProgress, pendingSends, readers, supervisor, hash,
                       output, sink, written, blockCount, aerror, runResult, extractVars>>

\* A variant that sends a subdirectory itself: a.directoryScanQueue <- filePath
\* in the scanner, which waits for room in the queue it also drains.
ScannerEntryInlineSend ==
    \E s \in BagToSet(scanners) :
        /\ s.pc = "entries"
        /\ LET names == ReaddirNames(s.dir) IN
           IF s.i > Len(names)
             THEN /\ ReaddirCloses(s.dir)
                  /\ workInProgress' = workInProgress - 1
                  /\ scanners' = Replace(scanners, s, ScannerIdle)
                  /\ UNCHANGED <<directoryScanQueue, pendingSends>>
           ELSE LET filePath == Join(s.dir, names[s.i]) IN
             IF \/ excludeFile(filePath)
                \/ filePath \notin DOMAIN Tree
                \/ Tree[filePath].kind = "symlink"
               THEN /\ scanners' = Replace(scanners, s, ScannerState("entries", s.dir, s.i + 1))
                    /\ UNCHANGED <<workInProgress, directoryScanQueue, pendingSends>>
             ELSE IF Tree[filePath].kind = "dir"
               THEN /\ HasRoom(directoryScanQueue, cfg.DirScanQueueSize)
                    /\ workInProgress' = workInProgress + 1
                    /\ directoryScanQueue' = Append(directoryScanQueue, filePath)
                    /\ scanners' = Replace(scanners, s,
                                       ScannerState("entries", s.dir, s.i + 1))
                    /\ UNCHANGED pendingSends
             ELSE /\ workInProgress' = workInProgress + 1
                  /\ scanners' = Replace(scanners, s, ScannerState("sendFile", s.dir, s.i))
                  /\ UNCHANGED <<directoryScanQueue, pendingSends>>
        /\ UNCHANGED <<cfg, mpc, seedIx, fileReadQueue, blockQueue,
                       closed, readers, supervisor, hash, output, sink, written,
                       blockCount, aerror, runResult, extractVars>>

\* A variant that does not look for os.ModeSymlink: a link is sent on like
\* a regular file.
ScannerEntryKeepsSymlinks ==
    \E s \in BagToSet(scanners) :
        /\ s.pc = "entries"
        /\ LET names == ReaddirNames(s.dir) IN
           IF s.i > Len(names)
             THEN /\ ReaddirCloses(s.dir)
                  /\ workInProgress' = workInProgress - 1
                  /\ scanners' = Replace(scanners, s, ScannerIdle)
                  /\ UNCHANGED pendingSends
           ELSE LET filePath == Join(s.dir, names[s.i]) IN
             IF \/ excludeFile(filePath)
                \/ filePath \notin DOMAIN Tree
               THEN /\ scanners' = Replace(scanners, s, ScannerState("entries", s.dir, s.i + 1))
                    /\ UNCHANGED <<workInProgress, pendingSends>>
             ELSE /\ workInProgress' = workInProgress + 1
                  /\ IF Tree[filePath].kind = "dir"
                       THEN /\ pendingSends' = pendingSends (+) SetToBag({filePath})
                            /\ scanners' = Replace(scanners, s,
                                               ScannerState("entries", s.dir, s.i + 1))
                       ELSE /\ scanners' = Replace(scanners, s,
                                               ScannerState("sendFile", s.dir, s.i))
                            /\ UNCHANGED pendingSends
        /\ UNCHANGED <<cfg, mpc, seedIx, directoryScanQueue, fileReadQueue, blockQueue,
                       closed, readers, supervisor, hash, output, sink, written,
                       blockCount, aerror, runResult, extractVars>>

\* A variant that starts the goroutine for a subdirectory without
\* a.workInProgress.Add(1).
ScannerEntryNoAddForDirectory ==
    \E s \in BagToSet(scanners) :
        /\ s.pc = "entries"
        /\ LET names == ReaddirNames(s.dir) IN
           IF s.i > Len(names)
             THEN /\ ReaddirCloses(s.dir)
                  /\ workInProgress' = workInProgress - 1
                  /\ scanners' = Replace(scanners, s, ScannerIdle)
                  /\ UNCHANGED pendingSends
           ELSE LET filePath == Join(s.dir, names[s.i]) IN
             IF \/ excludeFile(filePath)
                \/ filePath \notin DOMAIN Tree
                \/ Tree[filePath].kind = "symlink"
               THEN /\ scanners' = Replace(scanners, s, ScannerState("entries", s.dir, s.i + 1))
                    /\ UNCHANGED <<workInProgress, pendingSends>>
             ELSE /\ workInProgress' = IF Tree[filePath].kind = "dir" THEN workInProgress
                                       ELSE workInProgress + 1
                  /\ IF Tree[filePath].kind = "dir"
                       THEN /\ pendingSends' = pendingSends (+) SetToBag({filePath})
                            /\ scanners' = Replace(scanners, s,
                                               ScannerState("entries", s.dir, s.i + 1))
                       ELSE /\ scanners' = Replace(scanners, s,
                                               ScannerState("sendFile", s.dir, s.i))
                            /\ UNCHANGED pendingSends
        /\ UNCHANGED <<cfg, mpc, seedIx, directoryScanQueue, fileReadQueue, blockQueue,
                       closed, readers, supervisor, hash, output, sink, written,
                       blockCount, aerror, runResult, extractVars>>

\* directoryScanner: one turn of the loop over readdirnames, up to the send
\* of the entry; after the last entry, directory.Close and Done.  A
\* subdirectory is handed to a goroutine of its own that sends it.
ScannerEntry ==
    \E s \in BagToSet(scanners) :
        /\ s.pc = "entries"
        /\ LET names == ReaddirNames(s.dir) IN
           IF s.i > Len(names)
             THEN /\ ReaddirCloses(s.dir)
                  /\ workInProgress' = workInProgress - 1
                  /\ scanners' = Replace(scanners, s, ScannerIdle)
                  /\ UNCHANGED pendingSends
           ELSE LET filePath == Join(s.dir, names[s.i]) IN
             IF \/ excludeFile(filePath)
                \/ filePath \notin DOMAIN Tree
                \/ Tree[filePath].kind = "symlink"
               THEN /\ scanners' = Replace(scanners, s, ScannerState("entries", s.dir, s.i + 1))
                    /\ UNCHANGED <<workInProgress, pendingSends>>
             ELSE /\ workInProgress' = workInProgress + 1
                  /\ IF Tree[filePath].kind = "dir"
                       THEN /\ pendingSends' = pendingSends (+) SetToBag({filePath})
                            /\ scanners' = Replace(scanners, s,
                                               ScannerState("entries", s.dir, s.i + 1))
                       ELSE /\ scanners' = Replace(scanners, s,
                                               ScannerState("sendFile", s.dir, s.i))
                            /\ UNCHANGED pendingSends
        /\ UNCHANGED <<cfg, mpc, seedIx, directoryScanQueue, fileReadQueue, blockQueue,
                       closed, readers, supervisor, hash, output, sink, written,
                       blockCount, aerror, runResult, extractVars>>

\* directoryScanner: a.fileReadQueue <- filePath
ScannerSendFile ==
    \E s \in BagToSet(scanners) :
        /\ s.pc = "sendFile"
        /\ HasRoom(fileReadQueue, cfg.FileReadQueueSize)
        /\ fileReadQueue' = Append(fileReadQueue, Join(s.dir, Tree[s.dir].names[s.i]))
        /\ scanners' = Replace(scanners, s, ScannerState("entries", s.dir, s.i + 1))
        /\ UNCHANGED <<cfg, mpc, seedIx, directoryScanQueue, blockQueue, closed,
                       workInProgress, pendingSends, readers, supervisor, hash,
                       output, sink, written, blockCount, aerror, runResult, extractVars>>

\* go func(filePath string) { a.directoryScanQueue <- filePath }(filePath)
DecoupledSend ==
    \E filePath \in BagToSet(pendingSends) :
        /\ HasRoom(directoryScanQueue, cfg.DirScanQueueSize)
        /\ directoryScanQueue' = Append(directoryScanQueue, filePath)
        /\ pendingSends' = pendingSends (-) SetToBag({filePath})
        /\ UNCHANGED <<cfg, mpc, seedIx, fileReadQueue, blockQueue, closed,
                       workInProgress, scanners, readers, supervisor, hash,
                       output, sink, written, blockCount, aerror, runResult, extractVars>>

\* A variant whose open-failure branch leaves the loop turn without Done.
ReaderRecvOpenFailureNoDone ==
    /\ BagIn(ReaderIdle, readers)
    /\ IF fileReadQueue # <<>>
         THEN LET filePath == Head(fileReadQueue) IN
              /\ fileReadQueue' = Tail(fileReadQueue)
              /\ IF OpenFails(filePath)
                   THEN UNCHANGED <<readers, workInProgress>>
                   ELSE /\ readers' = Replace(readers, ReaderIdle,
                                          ReaderState("sendStart", filePath, 0, 0))
                        /\ UNCHANGED workInProgress
         ELSE /\ "fileReadQueue" \in closed
              /\ readers' = Replace(readers, ReaderIdle, ReaderExited)
              /\ UNCHANGED <<fileReadQueue, workInProgress>>
    /\ UNCHANGED <<cfg, mpc, seedIx, directoryScanQueue, blockQueue, closed,
                   pendingSends, scanners, supervisor, hash, output, sink, written,
                   blockCount, aerror, runResult, extractVars>>

\* fileReader: the range over fileReadQueue and os.Open; a file that does
\* not open is logged and its work item is done.
ReaderRecv ==
    /\ BagIn(ReaderIdle, readers)
    /\ IF fileReadQueue # <<>>
         THEN LET filePath == Head(fileReadQueue) IN
              /\ fileReadQueue' = Tail(fileReadQueue)
              /\ IF OpenFails(filePath)
                   THEN /\ workInProgress' = workInProgress - 1
                        /\ UNCHANGED readers
                   ELSE /\ readers' = Replace(readers, ReaderIdle,
                                          ReaderState("sendStart", filePath, 0, 0))
                        /\ UNCHANGED workInProgress
         ELSE /\ "fileReadQueue" \in closed
              /\ readers' = Replace(readers, ReaderIdle, ReaderExited)
              /\ UNCHANGED <<fileReadQueue, workInProgress>>
    /\ UNCHANGED <<cfg, mpc, seedIx, directoryScanQueue, blockQueue, closed,
                   pendingSends, scanners, supervisor, hash, output, sink, written,
                   blockCount, aerror, runResult, extractVars>>

\* fileReader: a.blockQueue <- block{filePath, 0, nil, blockTypeStartOfFile, ...},
\* then the first Read.
ReaderSendStartOfFile ==
    \E r \in BagToSet(readers) :
        /\ r.pc = "sendStart"
        /\ HasRoom(blockQueue, cfg.BlockQueueSize)
        /\ blockQueue' = Append(blockQueue, StartOfFileBlock(r.path))
        /\ readers' = Replace(readers, r, AfterRead(r.path, 0))
        /\ UNCHANGED <<cfg, mpc, seedIx, directoryScanQueue, fileReadQueue, closed,
                       workInProgress, pendingSends, scanners, supervisor, hash,
                       output, sink, written, blockCount, aerror, runResult, extractVars>>

\* fileReader: a.blockQueue <- block{filePath, uint16(bytesRead), buffer,
\* blockTypeData, ...}, then the next Read.
ReaderSendData ==
    \E r \in BagToSet(readers) :
        /\ r.pc = "sendData"
        /\ HasRoom(blockQueue, cfg.BlockQueueSize)
        /\ blockQueue' = Append(blockQueue, DataBlock(r.path, r.off, r.n))
        /\ readers' = Replace(readers, r, AfterRead(r.path, r.off + r.n))
        /\ UNCHANGED <<cfg, mpc, seedIx, directoryScanQueue, fileReadQueue, closed,
                       workInProgress, pendingSends, scanners, supervisor, hash,
                       output, sink, written, blockCount, aerror, runResult, extractVars>>

\* A variant that forgets workInProgress.Done().
ReaderSendEndOfFileNoDone ==
    \E r \in BagToSet(readers) :
        /\ r.pc = "sendEnd"
        /\ HasRoom(blockQueue, cfg.BlockQueueSize)
        /\ blockQueue' = Append(blockQueue, EndOfFileBlock(r.path))
        /\ readers' = Replace(readers, r, ReaderIdle)
        /\ UNCHANGED <<cfg, mpc, seedIx, directoryScanQueue, fileReadQueue, closed,
                       workInProgress, pendingSends, scanners, supervisor, hash,
                       output, sink, written, blockCount, aerror, runResult, extractVars>>

\* fileReader: a.blockQueue <- block{filePath, 0, nil, blockTypeEndOfFile, ...},
\* file.Close and Done.
ReaderSendEndOfFile ==
    \E r \in BagToSet(readers) :
        /\ r.pc = "sendEnd"
        /\ HasRoom(blockQueue, cfg.BlockQueueSize)
        /\ blockQueue' = Append(blockQueue, EndOfFileBlock(r.path))
        /\ workInProgress' = workInProgress - 1
        /\ readers' = Replace(readers, r, ReaderIdle)
        /\ UNCHANGED <<cfg, mpc, seedIx, directoryScanQueue, fileReadQueue, closed,
                       pendingSends, scanners, supervisor, hash, output, sink, written,
                       blockCount, aerror, runResult, extractVars>>

\* A variant of the goroutine without a.workInProgress.Wait().
CloseDirectoryScanQueueNoWait ==
    /\ supervisor = "wait"
    /\ closed' = closed \cup {"directoryScanQueue"}
    /\ supervisor' = "closeFileReadQueue"
    /\ UNCHANGED <<cfg, mpc, seedIx, directoryScanQueue, fileReadQueue, blockQueue,
                   workInProgress, pendingSends, scanners, readers, hash, output, sink,
                   written, blockCount, aerror, runResult, extractVars>>

\* The goroutine Run starts: a.workInProgress.Wait(); close(a.directoryScanQueue)
CloseDirectoryScanQueue ==
    /\ supervisor = "wait"
    /\ workInProgress = 0
    /\ closed' = closed \cup {"directoryScanQueue"}
    /\ supervisor' = "closeFileReadQueue"
    /\ UNCHANGED <<cfg, mpc, seedIx, directoryScanQueue, fileReadQueue, blockQueue,
                   workInProgress, pendingSends, scanners, readers, hash, output, sink,
                   written, blockCount, aerror, runResult, extractVars>>

\* close(a.fileReadQueue)
CloseFileReadQueue ==
    /\ supervisor = "closeFileReadQueue"
    /\ closed' = closed \cup {"fileReadQueue"}
    /\ supervisor' = "closeBlockQueue"
    /\ UNCHANGED <<cfg, mpc, seedIx, directoryScanQueue, fileReadQueue, blockQueue,
                   workInProgress, pendingSends, scanners, readers, hash, output, sink,
                   written, blockCount, aerror, runResult, extractVars>>

\* close(a.blockQueue)
CloseBlockQueue ==
    /\ supervisor = "closeBlockQueue"
    /\ closed' = closed \cup {"blockQueue"}
    /\ supervisor' = "done"
    /\ UNCHANGED <<cfg, mpc, seedIx, directoryScanQueue, fileReadQueue, blockQueue,
                   workInProgress, pendingSends, scanners, readers, hash, output, sink,
                   written, blockCount, aerror, runResult, extractVars>>

\* A variant that tests blockCount before it is incremented.
ArchiveWriterBlockCountsLate ==
    /\ mpc = "loop"
    /\ blockQueue # <<>>
    /\ LET b == Head(blockQueue)
           bytes == writeBlock(b)
           h1 == CHOOSE h \in {crc64Update(hash, bytes)} : TRUE
           w1 == WriteAll(sink, WriteLengths(b))
           due == w1.err = "nil" /\ blockCount % ChecksumInterval = 0
           w2 == IF due THEN WriteAll(w1, ChecksumWriteLengths) ELSE w1
       IN /\ blockQueue' = Tail(blockQueue)
          /\ blockCount' = blockCount + 1
          /\ sink' = w2
          /\ IF w2.err = "nil"
               THEN UNCHANGED <<mpc, runResult>>
               ELSE /\ mpc' = "returned"
                    /\ runResult' = w2.err
          /\ IF due
               THEN /\ output' = output \o bytes \o writeChecksumBlock(h1)
                    /\ hash' = hashChecksumBlock(h1)
                    /\ written' = written \o
                           <<b, ChecksumBlock(SubSeq(writeChecksumBlock(h1), 4, 11))>>
               ELSE /\ output' = output \o bytes
                    /\ hash' = h1
                    /\ written' = Append(written, b)
    /\ UNCHANGED <<cfg, seedIx, directoryScanQueue, fileReadQueue, closed,
                   workInProgress, pendingSends, scanners, readers, supervisor,
                   aerror, extractVars>>

\* archiveWriter: one turn of the range over blockQueue: writeBlock through
\* the MultiWriter, blockCount++, and a checksum block after every
\* ChecksumInterval blocks.  When a write fails archiveWriter returns the
\* error, and Run returns it after a.output.Flush().
ArchiveWriterBlock ==
    /\ mpc = "loop"
    /\ blockQueue # <<>>
    /\ LET b == Head(blockQueue)
           bytes == writeBlock(b)
           h1 == CHOOSE h \in {crc64Update(hash, bytes)} : TRUE
           w1 == WriteAll(sink, WriteLengths(b))
           due == w1.err = "nil" /\ (blockCount + 1) % ChecksumInterval = 0
           w2 == IF due THEN WriteAll(w1, ChecksumWriteLengths) ELSE w1
       IN /\ blockQueue' = Tail(blockQueue)
          /\ blockCount' = blockCount + 1
          /\ sink' = w2
          /\ IF w2.err = "nil"
               THEN UNCHANGED <<mpc, runResult>>
               ELSE /\ mpc' = "returned"
                    /\ runResult' = w2.err
          /\ IF due
               THEN /\ output' = output \o bytes \o writeChecksumBlock(h1)
                    /\ hash' = hashChecksumBlock(h1)
                    /\ written' = written \o
                           <<b, ChecksumBlock(SubSeq(writeChecksumBlock(h1), 4, 11))>>
               ELSE /\ output' = output \o bytes
                    /\ hash' = h1
                    /\ written' = Append(written, b)
    /\ UNCHANGED <<cfg, seedIx, directoryScanQueue, fileReadQueue, closed,
                   workInProgress, pendingSends, scanners, readers, supervisor,
                   aerror, extractVars>>

\* A variant that leaves its loop when blockQueue is closed, drained or not.
ArchiveWriterReturnUndrained ==
    /\ mpc = "loop"
    /\ "blockQueue" \in closed
    /\ output' = output \o writeChecksumBlock(hash)
    /\ hash' = hashChecksumBlock(hash)
    /\ written' = Append(written, ChecksumBlock(SubSeq(writeChecksumBlock(hash), 4, 11)))
    /\ LET w == WriteAll(sink, ChecksumWriteLengths)
       IN /\ sink' = Flush(w)
          /\ runResult' = IF w.err # "nil" THEN w.err ELSE aerror
    /\ mpc' = "returned"
    /\ UNCHANGED <<cfg, seedIx, directoryScanQueue, fileReadQueue, blockQueue, closed,
                   workInProgress, pendingSends, scanners, readers, supervisor,
                   blockCount, aerror, extractVars>>

\* archiveWriter once blockQueue is closed and drained: the final checksum
\* block; then Run calls a.output.Flush(), whose result it drops, and
\* returns the error of archiveWriter or else a.error.
ArchiveWriterReturn ==
    /\ mpc = "loop"
    /\ blockQueue = <<>>
    /\ "blockQueue" \in closed
    /\ output' = output \o writeChecksumBlock(hash)
    /\ hash' = hashChecksumBlock(hash)
    /\ written' = Append(written, ChecksumBlock(SubSeq(writeChecksumBlock(hash), 4, 11)))
    /\ LET w == WriteAll(sink, ChecksumWriteLengths)
       IN /\ sink' = Flush(w)
          /\ runResult' = IF w.err # "nil" THEN w.err ELSE aerror
    /\ mpc' = "returned"
    /\ UNCHANGED <<cfg, seedIx, directoryScanQueue, fileReadQueue, blockQueue, closed,
                   workInProgress, pendingSends, scanners, readers, supervisor,
                   blockCount, aerror, extractVars>>

NextCreate ==
    \/ AddDir
    \/ RunStart
    \/ ScannerRecv
    \/ ScannerSendDirectory
    \/ ScannerEntry
    \/ ScannerSendFile
    \/ DecoupledSend
    \/ ReaderRecv
    \/ ReaderSendStartOfFile
    \/ ReaderSendData
    \/ ReaderSendEndOfFile
    \/ CloseDirectoryScanQueue
    \/ CloseFileReadQueue
    \/ CloseBlockQueue
    \/ ArchiveWriterBlock
    \/ ArchiveWriterReturn

(***************************************************************************)
(* Extract: falib.Unarchiver.  The target directory starts empty; fs maps  *)
(* the paths created in it to their kind, bytes, owner and permission      *)
(* bits.  The process runs as the superuser, so chown succeeds.            *)
(***************************************************************************)
\* The creating process exits (main returns once Run has, and the goroutines
\* still at their range loops go with it), and the archive is handed to the
\* Unarchiver as it was written.
Feed ==
    /\ mpc = "returned"
    /\ upc = "notStarted"
    /\ mpc' = "exited"
    /\ scanners' = EmptyBag
    /\ readers' = EmptyBag
    /\ input' = SubSeq(output, 1, sink.file)
    /\ upc' = "header"
    /\ UNCHANGED <<cfg, seedIx, directoryScanQueue, fileReadQueue, blockQueue, closed,
                   workInProgress, pendingSends, supervisor, hash, output, sink, written,
                   blockCount, aerror, runResult, tamperedAt, rpos, rhash,
                   fileOutputChan, writers, uwip, uresult, fs>>

\* io.ReadFull(reader, buf) with len(buf) = n at offset pos: io.EOF when
\* nothing is left, io.ErrUnexpectedEOF when fewer than n bytes are.
ReadFull(pos, n) ==
    [ok |-> pos + n <= Len(input),
     err |-> IF pos >= Len(input) THEN "EOF" ELSE "ErrUnexpectedEOF",
     bytes |-> IF pos >= Len(input) THEN <<>>
               ELSE SubSeq(input, pos + 1, Min(pos + n, Len(input)))]

\* The three binary.Read calls for uid, gid and mode: the error of the first
\* that fails.
ReadOwnership(pos) ==
    IF ~ReadFull(pos, 4).ok THEN ReadFull(pos, 4)
    ELSE IF ~ReadFull(pos + 4, 4).ok THEN ReadFull(pos + 4, 4)
    ELSE IF ~ReadFull(pos + 8, 4).ok THEN ReadFull(pos + 8, 4)
    ELSE ReadFull(pos, 12)

ParseError(err) == [kind |-> "error", err |-> err]

Parsed(b, next) == [kind |-> "block", block |-> b, next |-> next]

\* One turn of the loop of Unarchiver.Run up to the dispatch on the block
\* type: what is read from offset pos.  uid, gid and mode are carried as
\* uint32 values.
ParseBlockAt(pos) ==
    LET ps == ReadFull(pos, 2) IN
    IF ~ps.ok THEN (IF ps.err = "EOF" THEN [kind |-> "end"] ELSE ParseError(ps.err))
    ELSE
    LET pathSize == BytesU16(ps.bytes)
        path == ReadFull(pos + 2, pathSize)
    IN
    IF pathSize > 0 /\ ~path.ok THEN ParseError(path.err)
    ELSE IF HasPrefixSlash(path.bytes) THEN ParseError("ErrAbsoluteDirectoryPath")
    ELSE
    LET tag == ReadFull(pos + 2 + pathSize, 1)
        body == pos + 3 + pathSize
    IN
    IF ~tag.ok THEN ParseError(tag.err)
    ELSE IF tag.bytes[1] \in {blockTypeStartOfFile, blockTypeDirectory}
      THEN LET o == ReadOwnership(body) IN
           IF ~o.ok THEN ParseError(o.err)
           ELSE Parsed(Block(path.bytes, 0, <<>>, tag.bytes[1],
                             BytesU32(SubSeq(o.bytes, 1, 4)),
                             BytesU32(SubSeq(o.bytes, 5, 8)),
                             BytesU32(SubSeq(o.bytes, 9, 12))), body + 12)
    ELSE IF tag.bytes[1] = blockTypeEndOfFile
      THEN Parsed(Block(path.bytes, 0, <<>>, blockTypeEndOfFile, <<0, 0>>, <<0, 0>>, <<0, 0>>),
                  body)
    ELSE IF tag.bytes[1] = blockTypeData
      THEN LET size == ReadFull(body, 2) IN
           IF ~size.ok THEN ParseError(size.err)
           ELSE LET blockSize == BytesU16(size.bytes)
                    blockData == ReadFull(body + 2, blockSize)
                IN IF blockSize > 0 /\ ~blockData.ok THEN ParseError(blockData.err)
                   ELSE Parsed(Block(path.bytes, blockSize, blockData.bytes, blockTypeData,
                                     <<0, 0>>, <<0, 0>>, <<0, 0>>), body + 2 + blockSize)
    ELSE IF tag.bytes[1] = blockTypeChecksum
      \* the error of binary.Read is dropped: a short value reads as zero
      THEN LET value == ReadFull(body, 8) IN
           Parsed(Block(path.bytes, 0, IF value.ok THEN value.bytes ELSE Zero64,
                        blockTypeChecksum, <<0, 0>>, <<0, 0>>, <<0, 0>>),
                  Min(body + 8, Len(input)))
    ELSE ParseError("ErrUnrecognizedBlockType")

ParseBlock == ParseBlockAt(rpos)

\* The last path separator of a path, 0 if it has none.
RECURSIVE LastSlash(_, _)
LastSlash(path, k) ==
    IF k = 0 THEN 0
    ELSE IF path[k] = Slash THEN k
    ELSE LastSlash(path, k - 1)

\* The directory a path names an entry of; the empty path is the directory
\* extraction runs in.
Parent(path) == SubSeq(path, 1, LastSlash(path, Len(path)) - 1)

Dot == 46

\* The path element "..".
DotDot == <<Dot, Dot>>

\* The place of the first separator of a path, one past its end if it
\* has none.
FirstSlash(path) ==
    CHOOSE i \in 1..(Len(path) + 1) :
        /\ i = Len(path) + 1 \/ path[i] = Slash
        /\ \A j \in 1..(i - 1) : path[j] # Slash

\* The elements of a path, split at its separators.
RECURSIVE Components(_)
Components(path) ==
    IF path = <<>> THEN <<>>
    ELSE CHOOSE r \in {<<SubSeq(path, 1, k - 1)>> \o Components(rest) :
                         <<k, rest>> \in {<<i, SubSeq(path, i + 1, Len(path))>> :
                                            i \in {FirstSlash(path)}}} : TRUE

\* A location is named from the directory extraction runs in, the empty
\* path; "..", "../.." are the directories above it and "../x" an entry of
\* the one just above.
RECURSIVE IsAbove(_)
IsAbove(loc) ==
    \/ loc = DotDot
    \/ /\ Len(loc) > 3
       /\ SubSeq(loc, Len(loc) - 2, Len(loc)) = <<Slash>> \o DotDot
       /\ \E rest \in {SubSeq(loc, 1, Len(loc) - 3)} : IsAbove(rest)

\* A location outside the directory extraction runs in.
Outside(loc) == Len(loc) >= 2 /\ SubSeq(loc, 1, 2) = DotDot
                  /\ (Len(loc) = 2 \/ loc[3] = Slash)

\* The entry of a directory with a name; the directory above it for "..".
Enter(loc, name) ==
    IF name \in {<<>>, <<Dot>>} THEN loc
    ELSE IF name # DotDot THEN IF loc = <<>> THEN name ELSE Join(loc, name)
    ELSE IF loc = <<>> THEN DotDot
    ELSE IF IsAbove(loc) THEN Join(loc, DotDot)
    ELSE Parent(loc)

\* The directories above the one extraction runs in exist; inside it there
\* is what extraction has made.
IsDirectory(path) ==
    \/ path = <<>>
    \/ IsAbove(path)
    \/ path \in DOMAIN fs /\ fs[path].kind = "dir"

\* Path resolution as the kernel does it for a relative path: element by
\* element from the working directory, every element but the last one
\* entered only if what has been reached is a directory.
RECURSIVE Walk(_, _, _)
Walk(loc, names, err) ==
    IF names = <<>> THEN [loc |-> loc, err |-> err]
    ELSE CHOOSE r \in
           {Walk(next, rest, e) :
               next \in {Enter(loc, Head(names))},
               rest \in {Tail(names)},
               e \in {IF err # "nil" THEN err
                      ELSE IF IsDirectory(loc) THEN "nil"
                      ELSE IF loc \in DOMAIN fs THEN "ENOTDIR"
                      ELSE "ENOENT"}} : TRUE

Resolve(path) ==
    CHOOSE r \in {Walk(<<>>, names, "nil") : names \in {Components(p) : p \in {path}}} : TRUE

\* The location a path names.
Location(path) == Resolve(path).loc

\* os.Mkdir(filePath, mode)
MkdirError(path) ==
    CHOOSE e \in
      {IF p = <<>> THEN "ENOENT"
       ELSE IF r.err # "nil" THEN r.err
       ELSE IF r.loc \in DOMAIN fs \/ IsDirectory(r.loc) THEN "EEXIST"
       ELSE "nil" : <<p, r>> \in {<<q, Resolve(q)>> : q \in {path}}} : TRUE

\* A variant in which the error of os.Create is not looked at.
CreateFailsUnnoticed(path) == FALSE

\* os.Create(filePath): the file is opened with O_CREATE|O_TRUNC, mode 0666.
CreateFails(path) ==
    \E <<p, r>> \in {<<q, Resolve(q)>> : q \in {path}} :
        \/ p = <<>>
        \/ r.err # "nil"
        \/ IsDirectory(r.loc)

Entry(kind, data, uid, gid, perm) ==
    [kind |-> kind, data |-> data, uid |-> uid, gid |-> gid, perm |-> perm]

Root == <<0, 0>>

\* A directory above the one extraction runs in, as extraction finds it:
\* owned by root, mode 0755.
DirectoryAbove == Entry("dir", <<>>, Root, Root, 493)

\* A writeFile goroutine: its channel (capacity 1), whether the channel was
\* closed, the file it has open, what its bufio.Writer holds, and whether
\* it has returned.
Writer(chan, isClosed, isOpen, file, buffered, done) ==
    [chan |-> chan, closed |-> isClosed, open |-> isOpen, file |-> file,
     buffered |-> buffered, done |-> done]

\* A variant whose reader starts to hash after the header.
UnarchiverHeaderUnhashed ==
    /\ upc = "header"
    /\ LET fileHeader == ReadFull(0, 8) IN
       IF ~fileHeader.ok
         THEN /\ uresult' = fileHeader.err
              /\ upc' = "returned"
              /\ UNCHANGED rpos
       ELSE IF fileHeader.bytes # fastArchiverHeader
         THEN /\ uresult' = "ErrFileHeaderMismatch"
              /\ upc' = "returned"
              /\ UNCHANGED rpos
       ELSE /\ rpos' = 8
            /\ upc' = "loop"
            /\ UNCHANGED uresult
    /\ UNCHANGED <<cfg, createVars, input, tamperedAt, rhash, fileOutputChan, writers,
                   uwip, fs>>

\* A variant that reads the header and does not compare it.
UnarchiverHeaderUnchecked ==
    /\ upc = "header"
    /\ LET fileHeader == ReadFull(0, 8) IN
       IF ~fileHeader.ok
         THEN /\ uresult' = fileHeader.err
              /\ upc' = "returned"
              /\ UNCHANGED <<rpos, rhash>>
       ELSE /\ rpos' = 8
            /\ rhash' = crc64Update(rhash, fileHeader.bytes)
            /\ upc' = "loop"
            /\ UNCHANGED uresult
    /\ UNCHANGED <<cfg, createVars, input, tamperedAt, fileOutputChan, writers, uwip, fs>>

\* Unarchiver.Run: the header is read and compared.
UnarchiverHeader ==
    /\ upc = "header"
    /\ LET fileHeader == ReadFull(0, 8) IN
       IF ~fileHeader.ok
         THEN /\ uresult' = fileHeader.err
              /\ upc' = "returned"
              /\ UNCHANGED <<rpos, rhash>>
       ELSE IF fileHeader.bytes # fastArchiverHeader
         THEN /\ uresult' = "ErrFileHeaderMismatch"
              /\ upc' = "returned"
              /\ UNCHANGED <<rpos, rhash>>
       ELSE /\ rpos' = 8
            /\ rhash' = crc64Update(rhash, fileHeader.bytes)
            /\ upc' = "loop"
            /\ UNCHANGED uresult
    /\ UNCHANGED <<cfg, createVars, input, tamperedAt, fileOutputChan, writers, uwip, fs>>

\* A variant that looks no channel up: every block goes to the first
\* writer.
SendToFirst(w, b) == [writers EXCEPT ![1].chan = Append(@, b)]

\* fileOutputChan[filePath] <- block
Send(w, b) == [writers EXCEPT ![w].chan = Append(@, b)]

\* A variant that reads the value of a checksum block from u.file, past the
\* hashingReader.
HashedBytesWithoutValue(read, b) ==
    IF b.blockType = blockTypeChecksum THEN SubSeq(read, 1, Len(read) - 8) ELSE read

\* What the hasher of the hashingReader is given of the bytes of one block:
\* every field is read through reader, the value of a checksum block too.
HashedBytes(read, b) == read

\* Unarchiver.Run: one turn of the loop: a block is read and dispatched on
\* its type.  A send on the channel of a path blocks while the channel holds
\* a block; a send on the nil channel of an unknown path blocks for ever.
UnarchiverBlock ==
    /\ upc = "loop"
    /\ LET r == ParseBlock IN
       IF r.kind = "end"
         THEN /\ upc' = "wait"
              /\ UNCHANGED <<rpos, rhash, fileOutputChan, writers, uwip, uresult, fs>>
       ELSE IF r.kind = "error"
         THEN /\ upc' = "returned"
              /\ uresult' = r.err
              /\ UNCHANGED <<rpos, rhash, fileOutputChan, writers, uwip, fs>>
       ELSE
       LET b == r.block
           filePath == b.filePath
           read == SubSeq(input, rpos + 1, r.next)
       IN
       /\ rpos' = r.next
       /\ rhash' = crc64Update(rhash, HashedBytes(read, b))
       /\ IF b.blockType = blockTypeStartOfFile
            THEN /\ writers' = Append(writers, Writer(<<b>>, FALSE, FALSE, <<>>, <<>>, FALSE))
                 /\ fileOutputChan' =
                        [p \in DOMAIN fileOutputChan \cup {filePath} |->
                            IF p = filePath THEN Len(writers) + 1 ELSE fileOutputChan[p]]
                 /\ uwip' = uwip + 1
                 /\ UNCHANGED <<upc, uresult, fs>>
          ELSE IF b.blockType \in {blockTypeEndOfFile, blockTypeData}
            THEN IF filePath \notin DOMAIN fileOutputChan
                   THEN /\ upc' = "blockedOnNilChannel"
                        /\ UNCHANGED <<fileOutputChan, writers, uwip, uresult, fs>>
                 ELSE LET c == fileOutputChan[filePath] IN
                      /\ HasRoom(writers[c].chan, 1)
                      /\ IF b.blockType = blockTypeEndOfFile
                           THEN /\ writers' = [Send(c, b) EXCEPT ![c].closed = TRUE]
                                /\ fileOutputChan' =
                                       [p \in DOMAIN fileOutputChan \ {filePath} |->
                                           fileOutputChan[p]]
                           ELSE /\ writers' = Send(c, b)
                                /\ UNCHANGED fileOutputChan
                      /\ UNCHANGED <<upc, uwip, uresult, fs>>
          ELSE IF b.blockType = blockTypeDirectory
            THEN LET mode == IF cfg.IgnorePerms THEN FileMode(TRUE, 493) ELSE b.mode
                     err == MkdirError(filePath)
                     dir == Location(filePath)
                     made == IF err = "nil"
                               THEN (dir :> Entry("dir", <<>>, Root, Root,
                                         AndNotBits(ModePerm(mode), cfg.umask, 9))) @@ fs
                               ELSE fs
                     found == IF dir \in DOMAIN made THEN made
                              ELSE (dir :> DirectoryAbove) @@ made
                 IN
                 IF cfg.DryRun
                   THEN UNCHANGED <<upc, fileOutputChan, writers, uwip, uresult, fs>>
                 ELSE IF err \notin {"nil", "EEXIST"}
                   THEN /\ upc' = "returned"
                        /\ uresult' = err
                        /\ UNCHANGED <<fileOutputChan, writers, uwip, fs>>
                 ELSE /\ fs' = IF cfg.IgnoreOwners THEN made
                               ELSE [found EXCEPT ![dir].uid = b.uid,
                                                  ![dir].gid = b.gid]
                      /\ UNCHANGED <<upc, fileOutputChan, writers, uwip, uresult>>
          ELSE \* blockTypeChecksum
               LET currentChecksum == crc64Update(rhash, SubSeq(input, rpos + 1, rpos + 3))
               IN IF b.buffer # currentChecksum
                    THEN /\ upc' = "returned"
                         /\ uresult' = "ErrCrcMismatch"
                         /\ UNCHANGED <<fileOutputChan, writers, uwip, fs>>
                    ELSE UNCHANGED <<upc, fileOutputChan, writers, uwip, uresult, fs>>
    /\ UNCHANGED <<cfg, createVars, input, tamperedAt>>

\* A variant of writeFile without the test of u.DryRun.
WriteFileBlockNoDryRun ==
    \E w \in 1..Len(writers) :
        /\ writers[w].chan # <<>>
        /\ ~writers[w].done
        /\ LET b == Head(writers[w].chan)
               received == [writers EXCEPT ![w].chan = Tail(@)]
               file == writers[w].file
           IN
           IF b.blockType = blockTypeStartOfFile
             THEN IF CreateFails(b.filePath)
                    THEN /\ writers' = [received EXCEPT ![w].open = FALSE]
                         /\ UNCHANGED fs
                  ELSE LET path == Location(b.filePath)
                           created ==
                               IF path \in DOMAIN fs
                                 THEN [fs[path] EXCEPT !.data = <<>>]
                                 ELSE Entry("file", <<>>, Root, Root,
                                            AndNotBits(438, cfg.umask, 9))
                           owned == IF cfg.IgnoreOwners THEN created
                                    ELSE [created EXCEPT !.uid = b.uid, !.gid = b.gid]
                           moded == IF cfg.IgnorePerms THEN owned
                                    ELSE [owned EXCEPT !.perm = ModePerm(b.mode)]
                       IN /\ fs' = (path :> moded) @@ fs
                          /\ writers' = [received EXCEPT ![w].open = TRUE,
                                                        ![w].file = path,
                                                        ![w].buffered = <<>>]
           ELSE IF ~writers[w].open
             THEN /\ writers' = received
                  /\ UNCHANGED fs
           ELSE IF b.blockType = blockTypeEndOfFile
             THEN /\ fs' = [fs EXCEPT ![file].data =
                                writers[w].buffered \o
                                SubSeq(@, Len(writers[w].buffered) + 1, Len(@))]
                  /\ writers' = [received EXCEPT ![w].open = FALSE, ![w].buffered = <<>>]
           ELSE /\ writers' = [received EXCEPT
                                 ![w].buffered = @ \o SubSeq(b.buffer, 1, b.numBytes)]
                /\ UNCHANGED fs
        /\ UNCHANGED <<cfg, createVars, upc, input, tamperedAt, rpos, rhash,
                       fileOutputChan, uwip, uresult>>

\* writeFile: one turn of the range over blockSource.  What is written to
\* the bufio.Writer stays in it until Flush (files shorter than its buffer).
WriteFileBlock ==
    \E w \in 1..Len(writers) :
        /\ writers[w].chan # <<>>
        /\ ~writers[w].done
        /\ LET b == Head(writers[w].chan)
               received == [writers EXCEPT ![w].chan = Tail(@)]
               file == writers[w].file
           IN
           IF b.blockType = blockTypeStartOfFile
             THEN IF cfg.DryRun
                    THEN /\ writers' = received
                         /\ UNCHANGED fs
                  ELSE IF CreateFails(b.filePath)
                    THEN /\ writers' = [received EXCEPT ![w].open = FALSE]
                         /\ UNCHANGED fs
                  ELSE LET path == Location(b.filePath)
                           created ==
                               IF path \in DOMAIN fs
                                 THEN [fs[path] EXCEPT !.data = <<>>]
                                 ELSE Entry("file", <<>>, Root, Root,
                                            AndNotBits(438, cfg.umask, 9))
                           owned == IF cfg.IgnoreOwners THEN created
                                    ELSE [created EXCEPT !.uid = b.uid, !.gid = b.gid]
                           moded == IF cfg.IgnorePerms THEN owned
                                    ELSE [owned EXCEPT !.perm = ModePerm(b.mode)]
                       IN /\ fs' = (path :> moded) @@ fs
                          /\ writers' = [received EXCEPT ![w].open = TRUE,
                                                        ![w].file = path,
                                                        ![w].buffered = <<>>]
           ELSE IF ~writers[w].open
             THEN /\ writers' = received
                  /\ UNCHANGED fs
           ELSE IF b.blockType = blockTypeEndOfFile
             THEN /\ fs' = [fs EXCEPT ![file].data =
                                writers[w].buffered \o
                                SubSeq(@, Len(writers[w].buffered) + 1, Len(@))]
                  /\ writers' = [received EXCEPT ![w].open = FALSE, ![w].buffered = <<>>]
           ELSE /\ writers' = [received EXCEPT
                                 ![w].buffered = @ \o SubSeq(b.buffer, 1, b.numBytes)]
                /\ UNCHANGED fs
        /\ UNCHANGED <<cfg, createVars, upc, input, tamperedAt, rpos, rhash,
                       fileOutputChan, uwip, uresult>>

\* writeFile: blockSource is closed and drained: workInProgress.Done()
WriteFileDone ==
    \E w \in 1..Len(writers) :
        /\ writers[w].chan = <<>>
        /\ writers[w].closed
        /\ ~writers[w].done
        /\ writers' = [writers EXCEPT ![w].done = TRUE]
        /\ uwip' = uwip - 1
        /\ UNCHANGED <<cfg, createVars, upc, input, tamperedAt, rpos, rhash,
                       fileOutputChan, uresult, fs>>

\* A variant that returns after the loop without workInProgress.Wait().
UnarchiverReturnNoWait ==
    /\ upc = "wait"
    /\ upc' = "returned"
    /\ uresult' = "nil"
    /\ UNCHANGED <<cfg, createVars, input, tamperedAt, rpos, rhash, fileOutputChan,
                   writers, uwip, fs>>

\* Unarchiver.Run after the loop: workInProgress.Wait(); return nil
UnarchiverReturn ==
    /\ upc = "wait"
    /\ uwip = 0
    /\ upc' = "returned"
    /\ uresult' = "nil"
    /\ UNCHANGED <<cfg, createVars, input, tamperedAt, rpos, rhash, fileOutputChan,
                   writers, uwip, fs>>

NextExtract ==
    \/ UnarchiverHeader
    \/ UnarchiverBlock
    \/ WriteFileBlock
    \/ WriteFileDone
    \/ UnarchiverReturn

Next ==
    \/ NextCreate
    \/ Feed
    \/ NextExtract

Spec == Init /\ [][Next]_vars

\* Every goroutine that can take a step eventually takes one (the Go
\* scheduler runs every runnable goroutine): the liveness specification
\* of the create pipeline, over the small trees.
InitCreate == InitFrom(SmallScenarios)

\* The create pipeline over the small trees and with the largest blocks.
InitBlockSize == InitFrom(SmallScenarios \cup WideBlockScenarios \cup SplitScenarios)

SpecBlockSize == InitBlockSize /\ [][NextCreate]_vars

\* The create pipeline over the small trees and with os.Open or
\* Readdirnames failing.
InitFailures == InitFrom(SmallScenarios \cup OpenFailScenarios \cup ReaddirFailScenarios)

SpecFailures == InitFailures /\ [][NextCreate]_vars

\* The same with every goroutine that can take a step taking one.
FairSpecFailures == SpecFailures /\ WF_vars(NextCreate)

\* More directory arguments than --queue-dir has slots, and --queue-dir 0.
OverSeededScenarios ==
    {Scenario(TreeOneFile, <<pA, pA>>, 1, 1, 1, MaxBlockSize),
     Scenario(TreeDeep, <<pA, pAD, pADE>>, MaxDirReaders, 1, 2, MaxBlockSize),
     [Scenario(TreeOneFile, <<pA>>, 1, 1, 1, MaxBlockSize) EXCEPT !.DirScanQueueSize = 0]}

\* A directory argument that lies under another one, with files in it.
NestedSeedScenarios ==
    {Scenario(TreeFiles, <<pA, pAD>>, 1, MaxFileReaders, 2, MaxBlockSize)}

\* The create pipeline over the small trees and with such arguments.
InitSeeding ==
    InitFrom(SmallScenarios \cup OverSeededScenarios \cup NestedSeedScenarios)

SpecSeeding == InitSeeding /\ [][NextCreate]_vars

\* The create pipeline over the small trees and with outputs that fail.
InitOutput == InitFrom(SmallScenarios \cup WriteFailScenarios)

SpecOutput == InitOutput /\ [][NextCreate]_vars

FairSpec == InitCreate /\ [][NextCreate]_vars /\ WF_vars(NextCreate)

(***************************************************************************)
(* Archives damaged between create and extract: one byte of the stream is  *)
(* XORed with a non-zero mask.                                             *)
(***************************************************************************)
Masks == {1, 128, 255}

TamperScenarios == {Scenario(TreeFiles, <<pA>>, 1, 1, 1, MaxBlockSize)}

InitTamper == InitFrom(TamperScenarios)

\* Like Feed, with one byte of the archive changed on the way.
Tamper ==
    /\ mpc = "returned"
    /\ upc = "notStarted"
    /\ \E i \in 1..sink.file, mask \in Masks :
           /\ input' = [SubSeq(output, 1, sink.file) EXCEPT ![i] = XorByte(@, mask)]
           /\ tamperedAt' = i
    /\ mpc' = "exited"
    /\ scanners' = EmptyBag
    /\ readers' = EmptyBag
    /\ upc' = "header"
    /\ UNCHANGED <<cfg, seedIx, directoryScanQueue, fileReadQueue, blockQueue, closed,
                   workInProgress, pendingSends, supervisor, hash, output, sink, written,
                   blockCount, aerror, runResult, rpos, rhash, fileOutputChan,
                   writers, uwip, uresult, fs>>

NextTamper ==
    \/ NextCreate
    \/ Feed
    \/ Tamper
    \/ NextExtract

SpecTamper == InitTamper /\ [][NextTamper]_vars


(***************************************************************************)
(* Extraction of archives that did not come from create: block sequences   *)
(* laid out as FILE-FORMAT.rst describes, each checksum block carrying the *)
(* CRC64 of the bytes before its value, and streams that end early.        *)
(***************************************************************************)
pAC == Join(pA, nC)

ArchiveDirectory(path) ==
    Block(path, 0, <<>>, blockTypeDirectory, 1000, 100, FileMode(TRUE, 493))

ArchiveStart(path) ==
    Block(path, 0, <<>>, blockTypeStartOfFile, 1000, 100, FileMode(FALSE, 420))

ArchiveData(path, bytes) ==
    Block(path, Len(bytes), bytes, blockTypeData, 0, 0, FileMode(FALSE, 0))

ArchiveEnd(path) == EndOfFileBlock(path)

ArchiveChecksum(path) ==
    Block(path, 0, <<>>, blockTypeChecksum, 0, 0, FileMode(FALSE, 0))

\* The bytes of the frame of one block that follows the bytes before.
Frame(b, before) ==
    IF b.blockType = blockTypeChecksum
      THEN LET framing == U16Bytes(Len(b.filePath)) \o b.filePath \o <<blockTypeChecksum>>
           IN framing \o crc64Checksum(before \o framing)
      ELSE writeBlock(b)

\* The archive of the first k blocks of a sequence: the header and a frame
\* per block.
RECURSIVE Archive(_, _)
Archive(blocks, k) ==
    IF k = 0 THEN fastArchiverHeader
    ELSE CHOOSE r \in {before \o Frame(blocks[k], before) :
                        before \in {Archive(blocks, k - 1)}} : TRUE

\* A well-formed archive of one directory and one file.
OneFileArchive ==
    <<ArchiveDirectory(pA), ArchiveStart(pAB), ArchiveData(pAB, <<104, 105>>),
      ArchiveEnd(pAB), ArchiveChecksum(<<>>)>>

\* A block of each type with the absolute path "/a".
AbsoluteBlock(type) ==
    IF type = blockTypeData THEN ArchiveData(pSlashA, <<120>>)
    ELSE IF type = blockTypeStartOfFile THEN ArchiveStart(pSlashA)
    ELSE IF type = blockTypeEndOfFile THEN ArchiveEnd(pSlashA)
    ELSE IF type = blockTypeDirectory THEN ArchiveDirectory(pSlashA)
    ELSE ArchiveChecksum(pSlashA)

BlockTypes ==
    {blockTypeData, blockTypeStartOfFile, blockTypeEndOfFile, blockTypeDirectory,
     blockTypeChecksum}

\* The absolute block as the first block, and while a file is being written.
AbsoluteArchives ==
    {<<AbsoluteBlock(t), ArchiveChecksum(<<>>)>> : t \in BlockTypes} \cup
    {<<ArchiveDirectory(pA), ArchiveStart(pAB), ArchiveData(pAB, <<104>>),
       AbsoluteBlock(t), ArchiveEnd(pAB), ArchiveChecksum(<<>>)>> : t \in BlockTypes}

\* Data or EndOfFile for a path that has no StartOfFile, or whose EndOfFile
\* came already.
UnknownPathArchives ==
    {<<ArchiveDirectory(pA), ArchiveData(pAB, <<104, 105>>), ArchiveChecksum(<<>>)>>,
     <<ArchiveDirectory(pA), ArchiveEnd(pAB), ArchiveChecksum(<<>>)>>,
     <<ArchiveDirectory(pA), ArchiveStart(pAB), ArchiveEnd(pAB),
       ArchiveData(pAB, <<120>>), ArchiveChecksum(<<>>)>>,
     <<ArchiveDirectory(pA), ArchiveStart(pAB), ArchiveEnd(pAB),
       ArchiveEnd(pAB), ArchiveChecksum(<<>>)>>,
     <<ArchiveDirectory(pA), ArchiveStart(pAB), ArchiveData(pAC, <<120>>),
       ArchiveEnd(pAB), ArchiveChecksum(<<>>)>>}

\* A second StartOfFile for a path whose EndOfFile has not come.
DuplicateStartArchives ==
    {<<ArchiveDirectory(pA), ArchiveStart(pAB), ArchiveData(pAB, <<104>>),
       ArchiveStart(pAB), ArchiveData(pAB, <<105>>), ArchiveEnd(pAB),
       ArchiveChecksum(<<>>)>>,
     <<ArchiveDirectory(pA), ArchiveStart(pAB), ArchiveStart(pAB),
       ArchiveEnd(pAB), ArchiveEnd(pAB), ArchiveChecksum(<<>>)>>}

\* Every way to merge two sequences that keeps the order within each.
RECURSIVE Interleavings(_, _)
Interleavings(s, t) ==
    IF s = <<>> THEN {t}
    ELSE IF t = <<>> THEN {s}
    ELSE {<<Head(s)>> \o r : r \in Interleavings(Tail(s), t)} \cup
         {<<Head(t)>> \o r : r \in Interleavings(s, Tail(t))}

\* The blocks of a/b = "hi" in two Data blocks, and those of a/d with
\* a/d/c = "x".
BlocksOfAB ==
    <<ArchiveStart(pAB), ArchiveData(pAB, <<104>>), ArchiveData(pAB, <<105>>),
      ArchiveEnd(pAB)>>

BlocksOfAD ==
    <<ArchiveDirectory(pAD), ArchiveStart(pADC), ArchiveData(pADC, <<120>>),
      ArchiveEnd(pADC)>>

InterleavedArchives ==
    {<<ArchiveDirectory(pA)>> \o r \o <<ArchiveChecksum(<<>>)>> :
        r \in Interleavings(BlocksOfAB, BlocksOfAD)}

\* What the Unarchiver is given: the blocks of the archive, how many bytes
\* of it arrive, which of them has its lowest bit changed on the way (0: none),
\* and the Unarchiver's settings.
ExtractScenario(blocks, cut) ==
    [blocks |-> blocks, cut |-> cut, flipAt |-> 0,
     IgnorePerms |-> FALSE, IgnoreOwners |-> FALSE, DryRun |-> FALSE, umask |-> 0]

Complete(blocks) == ExtractScenario(blocks, Len(Archive(blocks, Len(blocks))))

\* The one-file archive cut after each of its bytes from the header on.
TruncatedScenarios ==
    {ExtractScenario(OneFileArchive, cut) :
        cut \in Len(fastArchiverHeader)..Len(Archive(OneFileArchive, Len(OneFileArchive)))}

\* a/b = "hi" with a checksum block between its two Data blocks, and the
\* payload byte of the first Data block changed.
TwoChecksumArchive ==
    <<ArchiveDirectory(pA), ArchiveStart(pAB), ArchiveData(pAB, <<104>>),
      ArchiveChecksum(<<>>), ArchiveData(pAB, <<105>>), ArchiveEnd(pAB),
      ArchiveChecksum(<<>>)>>

FlippedScenarios ==
    {[Complete(TwoChecksumArchive) EXCEPT !.flipAt = Len(Archive(TwoChecksumArchive, 3))]}

ExtractScenarios ==
    TruncatedScenarios \cup FlippedScenarios \cup {Complete(TwoChecksumArchive)} \cup
    {Complete(blocks) : blocks \in AbsoluteArchives \cup UnknownPathArchives
                                     \cup DuplicateStartArchives \cup InterleavedArchives}

\* NewUnarchiver(file) in a process that only extracts: there is no
\* Archiver.
InitExtractFrom(scenarios) ==
    /\ cfg \in scenarios
    /\ mpc = "absent"
    /\ seedIx = 0
    /\ directoryScanQueue = <<>>
    /\ fileReadQueue = <<>>
    /\ blockQueue = <<>>
    /\ closed = {}
    /\ workInProgress = 0
    /\ pendingSends = EmptyBag
    /\ scanners = EmptyBag
    /\ readers = EmptyBag
    /\ supervisor = "notStarted"
    /\ hash = Zero64
    /\ output = <<>>
    /\ sink = NewWriter
    /\ written = <<>>
    /\ blockCount = 0
    /\ aerror = "nil"
    /\ runResult = "running"
    /\ upc = "header"
    /\ input = LET arrived == SubSeq(Archive(cfg.blocks, Len(cfg.blocks)), 1, cfg.cut)
               IN IF cfg.flipAt = 0 THEN arrived
                  ELSE [arrived EXCEPT ![cfg.flipAt] = XorByte(@, 1)]
    /\ rpos = 0
    /\ rhash = Zero64
    /\ fileOutputChan = NoFunction
    /\ writers = <<>>
    /\ uwip = 0
    /\ uresult = "running"
    /\ fs = NoFunction
    /\ tamperedAt = cfg.flipAt

InitExtract == InitExtractFrom(ExtractScenarios)

SpecExtract == InitExtract /\ [][NextExtract]_vars

\* Archives with a file that os.Create fails on: its directory has no
\* Directory block before it, or the path is a directory already; alone,
\* and with a file that can be created after or between its blocks.
CreateFailArchives ==
    {<<ArchiveStart(pAB), ArchiveData(pAB, <<104>>), ArchiveData(pAB, <<105>>),
       ArchiveEnd(pAB), ArchiveChecksum(<<>>)>>,
     <<ArchiveStart(pAB), ArchiveEnd(pAB), ArchiveDirectory(pA), ArchiveStart(pAC),
       ArchiveData(pAC, <<120>>), ArchiveEnd(pAC), ArchiveChecksum(<<>>)>>,
     <<ArchiveDirectory(pA), ArchiveDirectory(pAD), ArchiveStart(pAD),
       ArchiveStart(pAB), ArchiveData(pAD, <<120>>), ArchiveData(pAB, <<104, 105>>),
       ArchiveData(pAD, <<121>>), ArchiveEnd(pAB), ArchiveEnd(pAD),
       ArchiveChecksum(<<>>)>>}

CreateFailScenarios == {Complete(blocks) : blocks \in CreateFailArchives}

\* A Directory block for a/d/e with no directory a/d: os.Mkdir fails.
MkdirFailArchive ==
    <<ArchiveDirectory(pA), ArchiveDirectory(pADE), ArchiveChecksum(<<>>)>>

\* The file "b" in the directory extraction runs in.
TopLevelFileArchive ==
    <<ArchiveStart(nB), ArchiveData(nB, <<104, 105>>), ArchiveEnd(nB), ArchiveChecksum(<<>>)>>

PlainExtractScenarios ==
    ExtractScenarios \cup CreateFailScenarios \cup
    {Complete(MkdirFailArchive), Complete(TopLevelFileArchive)}

\* Every archive above with u.DryRun set.
DryRunScenarios == {[s EXCEPT !.DryRun = TRUE] : s \in PlainExtractScenarios}

\* The extraction of the archives above and of those on which a file
\* cannot be created, without and with DryRun.
InitExtractWide ==
    InitExtractFrom(PlainExtractScenarios \cup DryRunScenarios)

SpecExtractWide == InitExtractWide /\ [][NextExtract]_vars

\* Paths that do not begin with "/" and have ".." among their elements.
pUpA == Join(DotDot, nA)

pUpAB == Join(pUpA, nB)

pAUpUpB == Join(Join(Join(pA, DotDot), DotDot), nB)

pAUpB == Join(Join(pA, DotDot), nB)

\* Archives with such paths: a directory and a file beside the directory
\* extraction runs in, a file reached through a directory of the archive,
\* the directory above itself, and a path that comes back inside.
TraversalArchives ==
    {<<ArchiveDirectory(pUpA), ArchiveStart(pUpAB), ArchiveData(pUpAB, <<104, 105>>),
       ArchiveEnd(pUpAB), ArchiveChecksum(<<>>)>>,
     <<ArchiveDirectory(pA), ArchiveStart(pAUpUpB), ArchiveData(pAUpUpB, <<104, 105>>),
       ArchiveEnd(pAUpUpB), ArchiveChecksum(<<>>)>>,
     <<ArchiveDirectory(DotDot), ArchiveChecksum(<<>>)>>,
     <<ArchiveDirectory(pA), ArchiveStart(pAUpB), ArchiveData(pAUpB, <<104, 105>>),
       ArchiveEnd(pAUpB), ArchiveChecksum(<<>>)>>}

TraversalScenarios ==
    {Complete(blocks) : blocks \in TraversalArchives} \cup
    {[Complete(blocks) EXCEPT !.IgnoreOwners = TRUE] : blocks \in TraversalArchives}

\* The extraction of the archives above and of archives with such paths.
InitTraversal == InitExtractFrom(ExtractScenarios \cup TraversalScenarios)

SpecTraversal == InitTraversal /\ [][NextExtract]_vars


(***************************************************************************)
(* Properties.                                                             *)
(***************************************************************************)
Seeds == {cfg.seeds[i] : i \in 1..Len(cfg.seeds)}

StrictlyUnder(dir, path) ==
    /\ Len(path) > Len(dir) + 1
    /\ SubSeq(path, 1, Len(dir) + 1) = dir \o <<Slash>>

\* The part of the tree the seeds cover.
ArchivedPaths ==
    {p \in DOMAIN Tree : \E s \in Seeds : p = s \/ StrictlyUnder(s, p)}

FilePaths == {p \in DOMAIN Tree : Tree[p].kind = "file"}

DirectoryPaths == {p \in DOMAIN Tree : Tree[p].kind = "dir"}

\* No I/O failure, and a build that reads ownership from syscall.Stat_t.
FaultFree ==
    /\ DOMAIN cfg.readErrAt = {}
    /\ cfg.openFail = {}
    /\ cfg.hasStatT

CreateDone == mpc \in {"returned", "exited"}

ExtractStopped == upc \in {"returned", "blockedOnNilChannel"}

SameContents ==
    /\ DOMAIN fs = ArchivedPaths
    /\ \A p \in ArchivedPaths :
          /\ fs[p].kind = Tree[p].kind
          /\ fs[p].data = Tree[p].data

SameAttributes ==
    \A p \in ArchivedPaths \cap DOMAIN fs :
        /\ fs[p].uid = ToU32(Tree[p].uid)
        /\ fs[p].gid = ToU32(Tree[p].gid)
        /\ fs[p].perm = Tree[p].perm

\* C1  Round trip: archiving the tree under the seeds and extracting the
\* archive into an empty directory ends with Unarchiver.Run returning nil
\* and the extracted tree equal to the archived one in structure and file
\* contents, and in owner and permission bits when neither IgnorePerms nor
\* IgnoreOwners is set; for seeds of any depth.
C1_RoundTrip ==
    (FaultFree /\ ExtractStopped) =>
        /\ uresult = "nil"
        /\ SameContents
        /\ (~cfg.IgnorePerms /\ ~cfg.IgnoreOwners) => SameAttributes

\* The same for the seed lists of PlainScenarios and BigScenarios only: every
\* seed a top-level directory, given once.
RoundTripTopLevelSeeds ==
    (cfg \in PlainScenarios \cup BigScenarios) => C1_RoundTrip

IsBlock(b, type, path) == b.blockType = type /\ b.filePath = path

Count(blocks, type, path) ==
    Cardinality({i \in 1..Len(blocks) : IsBlock(blocks[i], type, path)})

\* The index of the last block archiveWriter took from blockQueue: a
\* checksum block is only ever written right after one, or at the very end.
LastBlock ==
    IF written # <<>> /\ written[Len(written)].blockType = blockTypeChecksum
      THEN Len(written) - 1
      ELSE Len(written)

\* The payloads of the Data blocks of a path among blocks lo..hi of the
\* archive, concatenated in stream order.
RECURSIVE Payload(_, _, _)
Payload(path, lo, hi) ==
    IF lo > hi THEN <<>>
    ELSE IF lo = hi
      THEN IF IsBlock(written[lo], blockTypeData, path)
             THEN SubSeq(written[lo].buffer, 1, written[lo].numBytes)
             ELSE <<>>
    ELSE CHOOSE r \in {l \o Payload(path, ((lo + hi) \div 2) + 1, hi) :
                        l \in {Payload(path, lo, (lo + hi) \div 2)}} : TRUE

\* C2  Per-file order: in the archive, the blocks of a file path P come as
\* StartOfFile(P), then every Data(P), then EndOfFile(P), and the Data(P)
\* payloads in stream order are the bytes of P.  Stated on the block
\* written last, so that it holds of every prefix of every archive.
C2_PerFileOrder ==
    \A P \in FilePaths :
        /\ (LastBlock > 0 /\ written[LastBlock].filePath = P
              /\ written[LastBlock].blockType \in {blockTypeData, blockTypeEndOfFile}) =>
               /\ \E i \in 1..(LastBlock - 1) : IsBlock(written[i], blockTypeStartOfFile, P)
               /\ \A i \in 1..(LastBlock - 1) : ~IsBlock(written[i], blockTypeEndOfFile, P)
        /\ (LastBlock > 0 /\ IsBlock(written[LastBlock], blockTypeStartOfFile, P)) =>
               \A i \in 1..(LastBlock - 1) : written[i].filePath # P
        /\ (mpc = "returned" /\ P \in ArchivedPaths /\ FaultFree) =>
               Payload(P, 1, Len(written)) = Tree[P].data

\* The same for seed lists without a repeated or nested seed.
PerFileOrderTopLevelSeeds ==
    (cfg \in PlainScenarios \cup BigScenarios) => C2_PerFileOrder

\* Blocks sent so far, in the order archiveWriter writes them.
Emitted == written \o blockQueue

\* Readers between the StartOfFile they sent for a path and its EndOfFile.
InFlight(path) ==
    BagCardinality([r \in {x \in BagToSet(readers) :
                             x.path = path /\ x.pc \in {"sendData", "sendEnd"}}
                      |-> readers[r]])

\* C3  Start/End pairing: every StartOfFile(P) a fileReader has sent is
\* matched by one EndOfFile(P) or by one reader that is still between the
\* two; when the run has returned the two counts are equal, and for a file
\* whose read failed midway the Data blocks sent before the error are in
\* the archive, followed by the EndOfFile.
C3_StartEndPairing ==
    \A P \in FilePaths :
        /\ upc = "notStarted" =>
              Count(Emitted, blockTypeStartOfFile, P) =
                  Count(Emitted, blockTypeEndOfFile, P) + InFlight(P)
        /\ CreateDone =>
              Count(written, blockTypeStartOfFile, P) = Count(written, blockTypeEndOfFile, P)
        /\ (mpc = "returned" /\ P \in DOMAIN cfg.readErrAt) =>
              /\ Count(written, blockTypeEndOfFile, P) = 1
              /\ Payload(P, 1, Len(written)) = SubSeq(Tree[P].data, 1, cfg.readErrAt[P])

\* A file whose read failed after its first byte has been archived.
C3_Witness ==
    /\ mpc = "returned"
    /\ pAB \in DOMAIN cfg.readErrAt
    /\ cfg.readErrAt[pAB] = 1
    /\ Count(written, blockTypeData, pAB) = 1
    /\ Count(written, blockTypeEndOfFile, pAB) = 1

\* C4  Directory before contents: every block whose path lies strictly
\* under an archived directory D that is not a seed is written after
\* Directory(D).  Stated on the block written last.
C4_DirectoryBeforeContents ==
    \A D \in (DirectoryPaths \cap ArchivedPaths) \ Seeds :
        (LastBlock > 0 /\ StrictlyUnder(D, written[LastBlock].filePath)) =>
            \E i \in 1..(LastBlock - 1) : IsBlock(written[i], blockTypeDirectory, D)

\* The same for seed lists without a repeated or nested seed.
DirectoryBeforeContentsTopLevelSeeds ==
    (cfg \in PlainScenarios \cup BigScenarios) => C4_DirectoryBeforeContents

AllClosed == closed = {"directoryScanQueue", "fileReadQueue", "blockQueue"}

EndsWithChecksum ==
    /\ written # <<>>
    /\ written[Len(written)].blockType = blockTypeChecksum
    /\ Len(output) >= 11
    /\ SubSeq(output, Len(output) - 10, Len(output) - 8) = ChecksumFraming

\* C5  Create termination: once Run is started it returns, with the work
\* counter at zero, the three queues closed, blockQueue drained and the
\* final checksum block at the end of the output.
C5_CreateTermination ==
    <>(/\ mpc = "returned"
       /\ workInProgress = 0
       /\ AllClosed
       /\ blockQueue = <<>>
       /\ EndsWithChecksum)

\* A run with the largest pools has returned.
C5_Witness ==
    /\ mpc = "returned"
    /\ cfg.DirReaderCount = MaxDirReaders
    /\ cfg.FileReaderCount = MaxFileReaders
    /\ BagIn(ScannerExited, scanners)
    /\ BagIn(ReaderExited, readers)

AllPaths == {pA, pAB, pAD, pAE, pADC, pADE}

DirectoryEmitted(path) ==
    \E i \in 1..Len(Emitted) : IsBlock(Emitted[i], blockTypeDirectory, path)

\* A subdirectory that a scanner comes across: its parent has been opened.
Discovered(path) ==
    /\ path \in DirectoryPaths
    /\ Parent(path) \in DirectoryPaths
    /\ DirectoryEmitted(Parent(path))

\* C6  Deadlock-safe send: every subdirectory of a directory that a scanner
\* has opened is eventually scanned itself, whatever DirScanQueueSize and
\* the number of scanners are.
C6_DeadlockSafeSend ==
    \A path \in AllPaths : Discovered(path) ~> DirectoryEmitted(path)

\* directoryScanQueue is full, a send to it is pending, and every scanner
\* is past an entry that was a subdirectory.
C6_Witness ==
    /\ Len(directoryScanQueue) = cfg.DirScanQueueSize
    /\ pendingSends # EmptyBag
    /\ BagCardinality(scanners) = cfg.DirReaderCount
    /\ \A s \in BagToSet(scanners) :
          /\ s.pc = "entries"
          /\ s.i > 1
          /\ Tree[Join(s.dir, Tree[s.dir].names[s.i - 1])].kind = "dir"

\* The parser is at a checksum block.
AtChecksumBlock ==
    /\ upc = "loop"
    /\ ParseBlock.kind = "block"
    /\ ParseBlock.block.blockType = blockTypeChecksum

\* C7  Writer/reader agreement: reading an archive as create wrote it, the
\* CRC64 the parser has computed when it reaches the value of a checksum
\* block equals that value, and Run never returns ErrCrcMismatch.
C7_ChecksumAgreement ==
    (tamperedAt = 0) =>
        /\ uresult # "ErrCrcMismatch"
        /\ AtChecksumBlock =>
              crc64Update(rhash, ChecksumFraming) = ParseBlock.block.buffer

\* The parser is at a checksum block that is not the last block.
AtIntermediateChecksumBlock ==
    /\ tamperedAt = 0
    /\ AtChecksumBlock
    /\ ParseBlock.next < Len(input)

\* An unmodified archive with files has been read to its end: the checksum
\* block was compared and Run returned nil.
C7_Witness ==
    /\ tamperedAt = 0
    /\ upc = "returned"
    /\ uresult = "nil"
    /\ rpos = Len(input)
    /\ rhash = hash
    /\ \E i \in 1..Len(written) : written[i].blockType = blockTypeData

\* The bytes of blocks lo..hi of the archive as they are in the output.
RECURSIVE Frames(_, _)
Frames(lo, hi) ==
    IF lo > hi THEN <<>>
    ELSE IF lo = hi
      THEN IF written[lo].blockType = blockTypeChecksum
             THEN ChecksumFraming \o written[lo].buffer
             ELSE writeBlock(written[lo])
    ELSE CHOOSE r \in {l \o Frames(((lo + hi) \div 2) + 1, hi) :
                        l \in {Frames(lo, (lo + hi) \div 2)}} : TRUE

\* C8  Checksum coverage: when a checksum block has just been written, its
\* value is the CRC64 of all the output before the value: the header, the
\* earlier frames with the values of earlier checksum blocks, and its own
\* zero path length and type tag.
C8_ChecksumCoverage ==
    (upc = "notStarted" /\ written # <<>>
       /\ written[Len(written)].blockType = blockTypeChecksum) =>
        LET covered == fastArchiverHeader \o Frames(1, Len(written) - 1) \o ChecksumFraming
        IN /\ output = covered \o written[Len(written)].buffer
           /\ written[Len(written)].buffer = crc64Checksum(covered)

\* The final checksum block of an archive that holds an earlier one.
TwoChecksumBlocks ==
    /\ mpc = "returned"
    /\ blockCount >= ChecksumInterval
    /\ Cardinality({i \in 1..Len(written) : written[i].blockType = blockTypeChecksum}) = 2

\* The checksum block that ends an archive holding directories and files.
C8_Witness ==
    /\ mpc = "returned"
    /\ upc = "notStarted"
    /\ Len(written) > 4
    /\ written[Len(written)].blockType = blockTypeChecksum
    /\ \E i \in 1..Len(written) : written[i].blockType = blockTypeDirectory

FrameLen(b) ==
    IF b.blockType = blockTypeChecksum THEN 11 ELSE Len(writeBlock(b))

\* The field of the archive that byte i lies in; k is a block of the
\* archive and start the number of bytes before it.
RECURSIVE FieldOf(_, _, _)
FieldOf(i, k, start) ==
    LET b == written[k]
        off == i - start
        pathSize == Len(b.filePath)
    IN IF off > FrameLen(b) THEN FieldOf(i, k + 1, start + FrameLen(b))
       ELSE IF off <= 2 THEN "pathLength"
       ELSE IF off <= 2 + pathSize THEN "path"
       ELSE IF off = 3 + pathSize THEN "type"
       ELSE IF b.blockType = blockTypeChecksum THEN "checksumValue"
       ELSE IF b.blockType # blockTypeData THEN "metadata"
       ELSE IF off <= 5 + pathSize THEN "size"
       ELSE "payload"

FieldAt(i) == IF i <= 8 THEN "header" ELSE FieldOf(i, 1, 8)

\* Extraction has failed the verification of a checksum block, or has not
\* come to an end yet.
FailsVerification ==
    /\ upc \notin {"wait", "blockedOnNilChannel"}
    /\ upc = "returned" => uresult = "ErrCrcMismatch"

\* C9  CRC integrity: with any one byte of a valid archive changed,
\* Unarchiver.Run does not run to the end of the input or block for ever:
\* it returns, and what it returns is ErrCrcMismatch.
C9_CrcIntegrity ==
    (tamperedAt # 0) => FailsVerification

\* The same for a byte of a Data payload, of the uid, gid and mode of a
\* StartOfFile or Directory block, or of the value of a checksum block: the
\* bytes whose change leaves the framing as it was.
CrcIntegrityOfContent ==
    (tamperedAt # 0 /\ FieldAt(tamperedAt) \in {"payload", "metadata", "checksumValue"}) =>
        FailsVerification

\* C10  Header integrity: on an input of eight bytes or more whose first
\* eight are not the header, Unarchiver.Run reads nothing further, starts
\* no writer and leaves the filesystem as it was, and what it returns is
\* ErrFileHeaderMismatch.
C10_HeaderIntegrity ==
    (upc # "notStarted" /\ Len(input) >= 8 /\ SubSeq(input, 1, 8) # fastArchiverHeader) =>
        /\ upc \in {"header", "returned"}
        /\ rpos = 0
        /\ writers = <<>>
        /\ fs = NoFunction
        /\ upc = "returned" => uresult = "ErrFileHeaderMismatch"

\* Run has returned on an archive with one of its header bytes changed.
C10_Witness ==
    /\ tamperedAt \in 1..8
    /\ upc = "returned"
    /\ uresult = "ErrFileHeaderMismatch"

\* main: a non-nil error of Run goes to logger.Fatalln, which exits with 1.
ExitStatus == IF runResult = "nil" THEN 0 ELSE 1

AbsoluteSeeds == {s \in Seeds : HasPrefixSlash(s)}

FrameStart(k) == Len(Archive(cfg.blocks, k - 1))

FrameEnd(k) == Len(Archive(cfg.blocks, k))

\* The parser is about to read block k.
AtBlock(k) == upc = "loop" /\ rpos = FrameStart(k)

Absolute(path) == path # <<>> /\ Head(path) = Slash

\* C12  Absolute-path rejection on extract: the turn of the loop that reads
\* a block whose path begins with "/", of whatever type, makes Run return
\* ErrAbsoluteDirectoryPath and changes neither the file system nor the
\* writers; no absolute path is ever created.
C12_AbsoluteRejectedOnExtract ==
    /\ [](\A p \in DOMAIN fs : ~Absolute(p))
    /\ [][\A k \in 1..Len(cfg.blocks) :
            (AtBlock(k) /\ Absolute(cfg.blocks[k].filePath)
               /\ <<upc, rpos>>' # <<upc, rpos>>) =>
                /\ upc' = "returned"
                /\ uresult' = "ErrAbsoluteDirectoryPath"
                /\ UNCHANGED <<fs, writers, fileOutputChan, uwip>>]_vars

\* Run has returned the error at an absolute block met while a/b was being
\* written.
C12_Witness ==
    /\ upc = "returned"
    /\ uresult = "ErrAbsoluteDirectoryPath"
    /\ rpos > Len(fastArchiverHeader)
    /\ pAB \in DOMAIN fs

\* Whether a path is in the active-path map once blocks 1..k have been
\* processed: StartOfFile enters it, EndOfFile removes it.
RECURSIVE Active(_, _)
Active(k, path) ==
    IF k = 0 THEN FALSE
    ELSE IF IsBlock(cfg.blocks[k], blockTypeStartOfFile, path) THEN TRUE
    ELSE IF IsBlock(cfg.blocks[k], blockTypeEndOfFile, path) THEN FALSE
    ELSE Active(k - 1, path)

\* Block k is a Data or EndOfFile block for a path that is not active.
UnknownPath(k) ==
    /\ cfg.blocks[k].blockType \in {blockTypeData, blockTypeEndOfFile}
    /\ ~Active(k - 1, cfg.blocks[k].filePath)

Failed == upc = "returned" /\ uresult \notin {"nil", "running"}

\* C13  Unknown path is fatal: once the parser has read a Data or EndOfFile
\* block whose path is not in the active-path map, Run has returned a
\* non-nil error.
C13_UnknownPathFatal ==
    \A k \in 1..Len(cfg.blocks) :
        (UnknownPath(k) /\ rpos >= FrameEnd(k)) => Failed

\* Block k is a StartOfFile for a path that is still active.
DuplicateStart(k) ==
    /\ cfg.blocks[k].blockType = blockTypeStartOfFile
    /\ Active(k - 1, cfg.blocks[k].filePath)

\* The StartOfFile blocks read so far that opened a path not yet active.
FirstStartsRead ==
    {k \in 1..Len(cfg.blocks) :
        /\ rpos >= FrameEnd(k)
        /\ cfg.blocks[k].blockType = blockTypeStartOfFile
        /\ ~DuplicateStart(k)}

\* C14  Duplicate StartOfFile is malformed: once the parser has read a
\* StartOfFile for a path that is still in the active-path map, Run has
\* returned a non-nil error, and no channel was made for it in place of the
\* first one.
C14_DuplicateStartMalformed ==
    \A k \in 1..Len(cfg.blocks) :
        (DuplicateStart(k) /\ rpos >= FrameEnd(k)) =>
            /\ Failed
            /\ Len(writers) = Cardinality(FirstStartsRead)

\* The input ends where a block ends (or right after the header).
EndsAtBoundary == \E k \in 0..Len(cfg.blocks) : cfg.cut = FrameEnd(k)

\* C15  End of stream: for a well-formed archive cut after any of its
\* bytes, when extraction has come to rest Run has returned: nil when the
\* input ends at a block boundary, the final checksum block present or
\* not, and a non-nil error when it ends inside a frame.
C15_EndOfStream ==
    (cfg \in TruncatedScenarios /\ ~ENABLED NextExtract) =>
        /\ upc = "returned"
        /\ IF EndsAtBoundary THEN uresult = "nil" ELSE uresult \notin {"nil", "running"}

\* The part of C15 that holds: Run never returns nil for an input that ends
\* inside a frame, nor an error for one that ends at a block boundary.
EndOfStreamResult ==
    (cfg \in TruncatedScenarios /\ upc = "returned") =>
        (uresult = "nil" <=> EndsAtBoundary)

\* The boundaries at which no file is left open.
EndOfStreamWithNoOpenFile ==
    (cfg \in TruncatedScenarios /\ ~ENABLED NextExtract /\ EndsAtBoundary
       /\ \A p \in {pAB} : \A k \in 0..Len(cfg.blocks) : cfg.cut = FrameEnd(k) => ~Active(k, p)) =>
        upc = "returned" /\ uresult = "nil"

\* A path and the directories above it.
PathAndAncestors(path) ==
    {SubSeq(path, 1, k) : k \in {j \in 1..Len(path) : j = Len(path) \/ path[j + 1] = Slash}}

\* The path, or a directory above it, matches one of the patterns given in
\* Archiver.ExcludePatterns.
Excluded(path) ==
    \E q \in PathAndAncestors(path), k \in 1..Len(cfg.ExcludePatterns) :
        Match(cfg.ExcludePatterns[k], q)

\* C16  Exclusion: no block is emitted for an entry whose full path matches
\* one of the globs supplied in Archiver.ExcludePatterns, nor for anything
\* below such an entry.
C16_Exclusion ==
    \A i \in 1..Len(Emitted) : ~Excluded(Emitted[i].filePath)

SymlinkPaths == {p \in DOMAIN Tree : Tree[p].kind = "symlink"}

BusyScanners ==
    {s \in BagToSet(scanners) : s.pc \in {"sendDirectory", "entries", "sendFile"}}

BusyReaders ==
    {r \in BagToSet(readers) : r.pc \in {"sendStart", "sendData", "sendEnd"}}

\* The paths that are work units: queued, held by a decoupled send, or in
\* the hands of a scanner or a reader.
WorkUnitPaths ==
    {directoryScanQueue[i] : i \in 1..Len(directoryScanQueue)} \cup
    {fileReadQueue[i] : i \in 1..Len(fileReadQueue)} \cup
    BagToSet(pendingSends) \cup
    {s.dir : s \in BusyScanners} \cup
    {Join(s.dir, Tree[s.dir].names[s.i]) : s \in {x \in BusyScanners : x.pc = "sendFile"}} \cup
    {r.path : r \in BusyReaders}

\* How many work units there are, each counted as often as it is held.
WorkUnits ==
    Len(directoryScanQueue) + Len(fileReadQueue) + BagCardinality(pendingSends)
    + BagCardinality([s \in BusyScanners |-> scanners[s]])
    + BagCardinality([s \in {x \in BusyScanners : x.pc = "sendFile"} |-> scanners[s]])
    + BagCardinality([r \in BusyReaders |-> readers[r]])

\* C17  Symlink omission: a directory entry that is a symbolic link never
\* becomes a work unit and the work counter counts exactly the work units,
\* no block is emitted for the link, and extraction does not create it.
C17_SymlinkOmission ==
    /\ workInProgress = WorkUnits
    /\ \A p \in SymlinkPaths :
          /\ p \notin WorkUnitPaths
          /\ \A i \in 1..Len(Emitted) : Emitted[i].filePath # p
          /\ p \notin DOMAIN fs

\* The tree with links has been archived and extracted: the regular file
\* is there, the links are not.
C17_Witness ==
    /\ SymlinkPaths # {}
    /\ upc = "returned"
    /\ uresult = "nil"
    /\ DOMAIN fs = {pA, pAB, pAD}

InterleavedScenarios == {Complete(blocks) : blocks \in InterleavedArchives}

\* How many blocks of the archive the Unarchiver has read.
BlocksRead == Cardinality({k \in 1..Len(cfg.blocks) : FrameEnd(k) <= rpos})

FileBlockTypes == {blockTypeStartOfFile, blockTypeData, blockTypeEndOfFile}

\* The blocks of one file among the first n of the archive, in stream order.
BlocksOfPath(path, n) ==
    SelectSeq(SubSeq(cfg.blocks, 1, n),
              LAMBDA b : b.filePath = path /\ b.blockType \in FileBlockTypes)

\* The path of the file that the w-th StartOfFile block of the archive opens.
WriterPath(w) ==
    LET k == CHOOSE j \in 1..Len(cfg.blocks) :
                 /\ cfg.blocks[j].blockType = blockTypeStartOfFile
                 /\ Cardinality({i \in 1..j :
                        cfg.blocks[i].blockType = blockTypeStartOfFile}) = w
    IN cfg.blocks[k].filePath

\* The bytes of the Data blocks of a sequence.
RECURSIVE DataOf(_)
DataOf(blocks) ==
    IF blocks = <<>> THEN <<>>
    ELSE (IF Head(blocks).blockType = blockTypeData
            THEN SubSeq(Head(blocks).buffer, 1, Head(blocks).numBytes)
            ELSE <<>>) \o DataOf(Tail(blocks))

SameBlock(b, c) ==
    /\ b.filePath = c.filePath
    /\ b.blockType = c.blockType
    /\ SubSeq(b.buffer, 1, b.numBytes) = SubSeq(c.buffer, 1, c.numBytes)

\* The writer of a path holds in its channel the latest blocks read for that
\* path and has applied the ones before them, in order.
OwnBlocksInOrder(w) ==
    LET path == WriterPath(w)
        own == BlocksOfPath(path, BlocksRead)
        chan == writers[w].chan
        taken == SubSeq(own, 1, Len(own) - Len(chan))
    IN /\ Len(chan) <= Len(own)
       /\ \A i \in 1..Len(chan) : SameBlock(chan[i], own[Len(own) - Len(chan) + i])
       /\ IF \E i \in 1..Len(taken) : taken[i].blockType = blockTypeEndOfFile
            THEN /\ ~writers[w].open
                 /\ fs[path].data = DataOf(taken)
          ELSE IF taken # <<>>
            THEN /\ writers[w].open
                 /\ writers[w].file = path
                 /\ writers[w].buffered = DataOf(taken)
          ELSE ~writers[w].open

\* The file system that the blocks of each path give, whatever lies between
\* them in the stream.
ExpectedFs ==
    LET blocks == cfg.blocks
        made == {k \in 1..Len(blocks) :
                    blocks[k].blockType \in {blockTypeDirectory, blockTypeStartOfFile}}
        first(path) == blocks[CHOOSE k \in made : blocks[k].filePath = path]
    IN [path \in {blocks[k].filePath : k \in made} |->
           LET b == first(path) IN
           IF b.blockType = blockTypeDirectory
             THEN Entry("dir", <<>>, ToU32(b.uid), ToU32(b.gid), ModePerm(b.mode))
             ELSE Entry("file", DataOf(BlocksOfPath(path, Len(blocks))),
                        ToU32(b.uid), ToU32(b.gid), ModePerm(b.mode))]

\* C18  Cross-path interleaving independence: however the blocks of two
\* paths are interleaved, every writer receives exactly the blocks of its
\* own path in stream order, and the extraction ends without error with the
\* file system that the per-path block sequences determine.
C18_InterleavingIndependence ==
    cfg \in InterleavedScenarios =>
        /\ \A w \in 1..Len(writers) : OwnBlocksInOrder(w)
        /\ upc = "returned" => uresult = "nil" /\ fs = ExpectedFs

\* An extraction has returned for an archive in which a block of a/d/c lies
\* between two blocks of a/b and the other way round.
C18_Witness ==
    /\ cfg \in InterleavedScenarios
    /\ upc = "returned"
    /\ uresult = "nil"
    /\ \E i, j, k, l \in 1..Len(cfg.blocks) :
          /\ i < j /\ j < k /\ k < l
          /\ cfg.blocks[i].filePath = pAB /\ cfg.blocks[k].filePath = pAB
          /\ cfg.blocks[j].filePath = pADC /\ cfg.blocks[l].filePath = pADC

\* archiveWriter has returned, and main may have exited since.
WriterReturned == mpc \in {"returned", "exited"}

IsChecksum(i) == written[i].blockType = blockTypeChecksum

ChecksumBlocksWritten == Cardinality({i \in 1..Len(written) : IsChecksum(i)})

\* C19  Periodic and final checksum: the blocks written are runs of
\* ChecksumInterval non-checksum blocks each followed at once by a Checksum
\* block, and the return of the writer adds exactly one more; so with N
\* non-checksum blocks written there are N div ChecksumInterval Checksum
\* blocks while the writer runs and one more when it has returned, the last
\* block of the finished archive being a Checksum block.
C19_PeriodicAndFinalChecksum ==
    /\ blockCount = Len(written) - ChecksumBlocksWritten
    /\ \A i \in 1..Len(written) :
          IsChecksum(i) <=> \/ i % (ChecksumInterval + 1) = 0
                            \/ WriterReturned /\ i = Len(written)
    /\ ChecksumBlocksWritten =
          (blockCount \div ChecksumInterval) + (IF WriterReturned THEN 1 ELSE 0)
    /\ WriterReturned => written # <<>> /\ IsChecksum(Len(written))

\* The archive of a run that wrote no block at all is one Checksum block.
C19_Witness ==
    /\ mpc = "returned"
    /\ blockCount = 0
    /\ Len(written) = 1
    /\ IsChecksum(1)

\* The archive of exactly ChecksumInterval blocks ends with the periodic
\* Checksum block followed by the final one.
ExactMultipleArchive ==
    /\ mpc = "returned"
    /\ blockCount = ChecksumInterval
    /\ Len(written) = ChecksumInterval + 2
    /\ IsChecksum(ChecksumInterval + 1)
    /\ IsChecksum(ChecksumInterval + 2)

IsData(b) == b.blockType = blockTypeData

\* A step that appends a Data block to blockQueue.
DataBlockSent ==
    /\ Len(blockQueue') = Len(blockQueue) + 1
    /\ IsData(blockQueue'[Len(blockQueue')])

\* C20  Block size bound: every Data block emitted has a buffer of the
\* configured block size and a payload of at most that many bytes, which is
\* at most 65535; the step that sends it takes it from a reader whose Read
\* returned exactly numBytes bytes, the bytes of the file at the reader's
\* offset; and the blocks already queued stay as they are.
C20_BlockSizeBound ==
    /\ [](/\ cfg.BlockSize <= MaxUint16
          /\ \A i \in 1..Len(Emitted) :
                IsData(Emitted[i]) =>
                    /\ Len(Emitted[i].buffer) = cfg.BlockSize
                    /\ Emitted[i].numBytes <= cfg.BlockSize
                    /\ Emitted[i].numBytes <= MaxUint16)
    /\ [][DataBlockSent =>
            /\ SubSeq(blockQueue', 1, Len(blockQueue)) = blockQueue
            /\ LET b == blockQueue'[Len(blockQueue')] IN
               \E r \in BagToSet(readers) :
                  /\ r.pc = "sendData"
                  /\ r.path = b.filePath
                  /\ r.n = b.numBytes
                  /\ r.n > 0
                  /\ SubSeq(b.buffer, 1, b.numBytes) =
                         SubSeq(Tree[r.path].data, r.off + 1, r.off + r.n)]_vars

\* An archive is finished that holds a Data block filling its buffer and a
\* Data block of fewer bytes than its buffer has.
C20_Witness ==
    /\ mpc = "returned"
    /\ cfg.BlockSize = MaxBlockSize
    /\ \E i, j \in 1..Len(written) :
          /\ IsData(written[i]) /\ written[i].numBytes = cfg.BlockSize
          /\ IsData(written[j]) /\ written[j].numBytes < Len(written[j].buffer)

\* A file one byte longer than the largest block has been archived as a
\* block of 65535 bytes and a block of one byte.
WideFileArchived ==
    /\ mpc = "returned"
    /\ cfg.BlockSize = MaxUint16
    /\ \E i, j \in 1..Len(written) :
          /\ i < j
          /\ IsData(written[i]) /\ written[i].numBytes = MaxUint16
          /\ IsData(written[j]) /\ written[j].numBytes = 1

IsPrefix(s, t) == Len(s) <= Len(t) /\ s = SubSeq(t, 1, Len(s))

\* The blocks FILE-FORMAT.rst gives for the tiny trees.
TinyArchive ==
    IF cfg.tree = TreeOneFile THEN OneFileArchive
    ELSE <<ArchiveDirectory(pA), ArchiveChecksum(<<>>)>>

\* C21  Single-file archive is deterministic: for a/ with only a/b = "hi",
\* and for a/ empty, whatever the pools, the queues and the schedule, the
\* bytes written are at every moment a prefix of the header followed by the
\* frames of Directory, StartOfFile, Data(2, "hi"), EndOfFile, Checksum
\* (of Directory, Checksum for the empty tree), and they are exactly those
\* bytes once the writer has returned.
C21_TinyArchiveDeterministic ==
    cfg \in TinyScenarios =>
        LET bytes == CHOOSE r \in {Archive(TinyArchive, Len(TinyArchive))} : TRUE IN
        /\ IsPrefix(output, bytes)
        /\ WriterReturned => output = bytes /\ runResult = "nil"

\* The one-file tree has been archived by several scanners and readers.
C21_Witness ==
    /\ cfg \in TinyScenarios
    /\ cfg.tree = TreeOneFile
    /\ cfg.DirReaderCount > 1
    /\ cfg.FileReaderCount > 1
    /\ mpc = "returned"
    /\ Len(written) = 5

\* The empty tree has been archived.
EmptyTreeArchived ==
    /\ cfg \in TinyScenarios
    /\ cfg.tree = TreeEmpty
    /\ mpc = "returned"
    /\ Len(written) = 2

\* The sizes of the Data blocks of a file of limit readable bytes read with
\* buffers of size bytes, from offset off on.
RECURSIVE ReadSizes(_, _, _)
ReadSizes(size, limit, off) ==
    LET n == BytesRead(size, limit, off) IN
    IF n = 0 THEN <<>> ELSE <<n>> \o ReadSizes(size, limit, off + n)

\* The Data blocks written for a path, in order.
DataBlocksOf(path) ==
    SelectSeq(written, LAMBDA b : IsData(b) /\ b.filePath = path)

\* The blocks written for a path, in order.
WrittenFor(path) == SelectSeq(written, LAMBDA b : b.filePath = path)

\* C22  Multi-block split: for every block size B in 1..65535 the reads of
\* a file of B + 1 bytes return B bytes and then 1 byte; and a create run
\* over such a file writes for it StartOfFile, a Data block of B bytes, a
\* Data block of 1 byte and EndOfFile, in that order and nothing else.
C22_MultiBlockSplit ==
    cfg \in SplitScenarios =>
        /\ (mpc = "addDir" /\ seedIx = 0) =>
              \A size \in 1..MaxUint16 : ReadSizes(size, size + 1, 0) = <<size, 1>>
        /\ WriterReturned =>
              LET blocks == WrittenFor(pAB) IN
              /\ Len(blocks) = 4
              /\ blocks[1].blockType = blockTypeStartOfFile
              /\ IsData(blocks[2]) /\ blocks[2].numBytes = cfg.BlockSize
              /\ IsData(blocks[3]) /\ blocks[3].numBytes = 1
              /\ blocks[4].blockType = blockTypeEndOfFile
              /\ SubSeq(blocks[2].buffer, 1, cfg.BlockSize) \o SubSeq(blocks[3].buffer, 1, 1)
                    = Tree[pAB].data

\* A file of MaxBlockSize + 1 bytes has been archived with blocks of
\* MaxBlockSize bytes.
C22_Witness ==
    /\ cfg \in SplitScenarios
    /\ cfg.BlockSize = MaxBlockSize
    /\ mpc = "returned"
    /\ Len(DataBlocksOf(pAB)) = 2

\* The same for blocks as long as bufio's buffer and for the largest blocks.
SplitAtBufferSize ==
    /\ cfg \in SplitScenarios
    /\ cfg.BlockSize = defaultBufSize
    /\ mpc = "returned"
    /\ Len(DataBlocksOf(pAB)) = 2

SplitAtMaxUint16 ==
    /\ cfg \in SplitScenarios
    /\ cfg.BlockSize = MaxUint16
    /\ mpc = "returned"
    /\ Len(DataBlocksOf(pAB)) = 2

\* Where the frame of the first checksum block that lies wholly after byte i
\* ends; k is a block of the archive and start the number of bytes before it.
RECURSIVE FirstChecksumEnd(_, _, _)
FirstChecksumEnd(i, k, start) ==
    IF k > Len(written) THEN 0
    ELSE IF written[k].blockType = blockTypeChecksum /\ start >= i
      THEN start + FrameLen(written[k])
    ELSE FirstChecksumEnd(i, k + 1, start + FrameLen(written[k]))

PayloadTampered == tamperedAt # 0 /\ FieldAt(tamperedAt) = "payload"

\* C23  Payload corruption is detected: with one payload byte of a Data
\* block changed and a checksum block after it, Unarchiver.Run neither runs
\* to the end of the input nor blocks: whenever it can take no further step
\* it has returned, what it returns is ErrCrcMismatch, and it returns on
\* reading the first checksum block after the changed byte.
C23_PayloadCorruptionDetected ==
    (PayloadTampered /\ FirstChecksumEnd(tamperedAt, 1, 8) # 0) =>
        /\ upc \notin {"wait", "blockedOnNilChannel"}
        /\ rpos <= FirstChecksumEnd(tamperedAt, 1, 8)
        /\ (upc # "notStarted" /\ ~ENABLED NextExtract) => upc = "returned"
        /\ upc = "returned" =>
              /\ uresult = "ErrCrcMismatch"
              /\ rpos = FirstChecksumEnd(tamperedAt, 1, 8)

\* Run has returned ErrCrcMismatch on the archive with the last byte of
\* "hi" changed.
C23_Witness ==
    /\ PayloadTampered
    /\ input[tamperedAt] # 105
    /\ output[tamperedAt] = 105
    /\ upc = "returned"
    /\ uresult = "ErrCrcMismatch"

\* The same on an archive with two checksum blocks and the changed payload
\* byte before the first: Run returns on reading the first, with the second
\* Data block unread.
DetectedAtFirstChecksum ==
    (cfg \in FlippedScenarios /\ ~ENABLED NextExtract) =>
        /\ upc = "returned"
        /\ uresult = "ErrCrcMismatch"
        /\ rpos = FrameEnd(4)
        /\ Len(writers) = 1

\* The output file has taken every byte written to a.output.
OutputComplete == sink.err = "nil" /\ sink.n = 0 /\ sink.file = Len(output)

\* C24  Write failure is fatal: when Run has returned, a failed write to
\* the output, the one of the final Flush included, has made it return a
\* non-nil error and the process exit with a non-zero status; and Run has
\* returned nil only if the output took every byte up to and including the
\* final checksum block.
C24_WriteFailureFatal ==
    mpc = "returned" =>
        /\ sink.err # "nil" => runResult # "nil" /\ ExitStatus # 0
        /\ runResult = "nil" =>
              /\ OutputComplete
              /\ written # <<>> /\ IsChecksum(Len(written))

\* A write that fails inside archiveWriter, before all blocks are written,
\* does make Run return the error.
WriteFailureInArchiveWriterFatal ==
    [][(sink.err = "nil" /\ sink'.err # "nil" /\ ~("blockQueue" \in closed /\ blockQueue = <<>>))
          => mpc' = "returned" /\ runResult' = sink'.err]_vars

\* Such a failure has happened.
WriteFailedInArchiveWriter ==
    /\ mpc = "returned"
    /\ runResult = "ENOSPC"

\* The Data buffers that a fileReader has allocated and filled and that
\* archiveWriter has not written yet: those of the Data blocks in blockQueue
\* and those that readers hold while they wait to send.
DataBuffersInFlight ==
    Cardinality({i \in 1..Len(blockQueue) : IsData(blockQueue[i])})
    + BagCardinality([r \in {x \in BagToSet(readers) : x.pc = "sendData"} |-> readers[r]])

\* C25  In-flight data bound: at every moment of a create run the Data
\* buffers allocated by the file readers and not yet written by the archive
\* writer number at most BlockQueueSize.
C25_InFlightBound == DataBuffersInFlight <= cfg.BlockQueueSize

\* They number at most BlockQueueSize plus one per file reader.
InFlightWithinQueueAndReaders ==
    DataBuffersInFlight <= cfg.BlockQueueSize + cfg.FileReaderCount

\* That bound is met: the queue is full of Data blocks and every reader
\* holds one more.
QueueAndReadersFull ==
    /\ mpc = "loop"
    /\ DataBuffersInFlight = cfg.BlockQueueSize + cfg.FileReaderCount

IsChecksumBlock(k) == cfg.blocks[k].blockType = blockTypeChecksum

\* The bytes of the frame of block k of the archive without the value of a
\* checksum block.
FrameWithoutValue(k) ==
    LET b == cfg.blocks[k]
    IN IF IsChecksumBlock(k)
         THEN U16Bytes(Len(b.filePath)) \o b.filePath \o <<blockTypeChecksum>>
         ELSE writeBlock(b)

\* The archive up to the value of block k with the values of the checksum
\* blocks before it left out.
RECURSIVE WithoutChecksumValues(_)
WithoutChecksumValues(k) ==
    IF k = 0 THEN fastArchiverHeader
    ELSE WithoutChecksumValues(k - 1) \o FrameWithoutValue(k)

\* The value that checksum block k carries in the input.
ValueOf(k) == SubSeq(input, FrameEnd(k) - 7, FrameEnd(k))

\* Unarchiver.Run has read checksum block k and found its value to be the
\* one it computed.
Verified(k) ==
    /\ IsChecksumBlock(k)
    /\ cfg.flipAt = 0
    /\ FrameEnd(k) <= cfg.cut
    /\ rpos >= FrameEnd(k)
    /\ uresult # "ErrCrcMismatch"

\* C26  Checksum excludes earlier checksum values: the value of a checksum
\* block that Unarchiver.Run has verified is the CRC64 of the header and of
\* the frames before it with the zero path length and type tag of every
\* checksum block, its own too, but without the values of the checksum
\* blocks before it.
C26_ChecksumExcludesEarlierValues ==
    \A k \in 1..Len(cfg.blocks) :
        Verified(k) => ValueOf(k) = crc64Checksum(WithoutChecksumValues(k))

\* The input is the whole archive, unchanged.
ArrivedWhole == cfg.flipAt = 0 /\ cfg.cut = FrameEnd(Len(cfg.blocks))

\* C26 as amended: the values of the earlier checksum blocks are covered.
\* The value of a checksum block of an archive is the CRC64 of every byte
\* before it, Unarchiver.Run finds no mismatch on an archive that arrived
\* whole and unchanged, and between two blocks its hasher holds the CRC64 of every
\* byte it has read, the values of the checksum blocks read among them.
C26_ChecksumCoversEarlierValues ==
    /\ ArrivedWhole => uresult # "ErrCrcMismatch"
    /\ upc = "loop" => rhash = crc64Checksum(SubSeq(input, 1, rpos))
    /\ \A k \in 1..Len(cfg.blocks) :
          Verified(k) => ValueOf(k) = crc64Checksum(SubSeq(input, 1, FrameEnd(k) - 8))

\* Run has returned nil on the archive with two checksum blocks, having
\* verified the second after the value of the first.
C26_Witness ==
    /\ cfg = Complete(TwoChecksumArchive)
    /\ upc = "returned"
    /\ uresult = "nil"
    /\ Verified(4)
    /\ Verified(7)
    /\ ValueOf(7) # crc64Checksum(WithoutChecksumValues(7))

\* C27  WorkCounter accounting: in every state of a create run the counter
\* is the number of units submitted and not completed (the paths in
\* directoryScanQueue, in the pending decoupled sends and in fileReadQueue,
\* and the units a scanner or a reader is working on) and is not negative;
\* a step changes it by one at most; a path enters a queue only when it is
\* counted already, or, in AddDir, together with its increment; and a unit
\* that leaves a worker's hands or, failing to open, the queue, without
\* becoming another unit takes one off the counter.
C27_WorkCounterAccounting ==
    /\ [](workInProgress = WorkUnits /\ workInProgress >= 0)
    /\ [][/\ workInProgress' - workInProgress \in {-1, 0, 1}
          /\ Len(fileReadQueue') > Len(fileReadQueue) =>
                workInProgress' = workInProgress /\ workInProgress > 0
          /\ Len(directoryScanQueue') > Len(directoryScanQueue) =>
                IF mpc = "addDir" THEN workInProgress' = workInProgress + 1
                ELSE workInProgress' = workInProgress /\ workInProgress > 0
          /\ WorkUnits' < WorkUnits => workInProgress' = workInProgress - 1]_vars

\* The file that did not open has been taken off the counter while a file
\* found after it is a unit.
C27_Witness ==
    /\ cfg.openFail = {pAB}
    /\ mpc = "loop"
    /\ pAB \notin WorkUnitPaths
    /\ pADC \in WorkUnitPaths
    /\ workInProgress = 1

\* The sets of closed queues that the order directoryScanQueue,
\* fileReadQueue, blockQueue allows.
ClosedInOrder ==
    {{}, {"directoryScanQueue"}, {"directoryScanQueue", "fileReadQueue"},
     {"directoryScanQueue", "fileReadQueue", "blockQueue"}}

\* C28  Close order: a queue is closed only in a state in which the work
\* counter is zero, and the counter stays zero from the first close on; the
\* queues are closed one at a time in the order directoryScanQueue,
\* fileReadQueue, blockQueue, so that blockQueue is never closed while one
\* of the other two is open; and a closed queue stays closed.
C28_CloseOrder ==
    /\ [](closed \in ClosedInOrder)
    /\ [](closed # {} => workInProgress = 0)
    /\ [][closed' # closed =>
            /\ workInProgress = 0
            /\ workInProgress' = 0
            /\ closed \subseteq closed'
            /\ Cardinality(closed') = Cardinality(closed) + 1]_vars

\* The three queues are closed after a run that archived a file with an
\* archive writer that is still at work.
C28_Witness ==
    /\ closed = {"directoryScanQueue", "fileReadQueue", "blockQueue"}
    /\ supervisor = "done"
    /\ workInProgress = 0
    /\ mpc = "loop"
    /\ blockQueue # <<>>
    /\ \E i \in 1..Len(written) : written[i].blockType = blockTypeStartOfFile

\* The paths that os.Open fails on.
FailingPaths == cfg.openFail \cup {s \in Seeds : s \notin DOMAIN Tree}

\* p lies under P and no seed under P leads to it.
OnlyThrough(P, p) ==
    /\ StrictlyUnder(P, p)
    /\ ~\E s \in Seeds : StrictlyUnder(P, s) /\ (s = p \/ StrictlyUnder(s, p))

\* A step that takes P from the head of a queue releases one work unit and
\* leaves the workers, the other queues and the error as they are.
ReleasedAtOpen(P) ==
    LET fromScanQueue == /\ directoryScanQueue # <<>>
                         /\ Head(directoryScanQueue) = P
                         /\ directoryScanQueue' = Tail(directoryScanQueue)
        fromReadQueue == /\ fileReadQueue # <<>>
                         /\ Head(fileReadQueue) = P
                         /\ fileReadQueue' = Tail(fileReadQueue)
    IN (fromScanQueue \/ fromReadQueue) =>
          /\ workInProgress' = workInProgress - 1
          /\ UNCHANGED <<scanners, readers, pendingSends, blockQueue, aerror>>
          /\ fromScanQueue => UNCHANGED fileReadQueue
          /\ fromReadQueue => UNCHANGED directoryScanQueue

\* C29  Open failure: for a path that os.Open fails on no block is ever
\* emitted, no scanner or reader ever works on it, and nothing that is
\* reached only through it becomes a work unit or has a block; the step
\* that takes it from its queue releases exactly one work unit and leaves
\* the worker at the head of its loop; and Run returns, unless a directory
\* cannot be read to its end.
C29_OpenFailure ==
    /\ [](\A P \in FailingPaths :
            /\ \A i \in 1..Len(Emitted) : Emitted[i].filePath # P
            /\ \A s \in BusyScanners : s.dir # P
            /\ \A r \in BusyReaders : r.path # P
            /\ \A p \in DOMAIN Tree : OnlyThrough(P, p) =>
                  /\ p \notin WorkUnitPaths
                  /\ \A i \in 1..Len(Emitted) : Emitted[i].filePath # p)
    /\ [][\A P \in FailingPaths : ReleasedAtOpen(P)]_vars
    /\ (FailingPaths # {} /\ \A d \in DOMAIN cfg.readdirErr : ~cfg.readdirErr[d].persists)
          ~> (mpc = "returned" /\ workInProgress = 0)

\* Run has returned nil with a/b, which did not open, left out and a/d/c,
\* found after it, archived.
C29_Witness ==
    /\ cfg.openFail = {pAB}
    /\ mpc = "returned"
    /\ runResult = "nil"
    /\ \A i \in 1..Len(written) : written[i].filePath # pAB
    /\ Count(written, blockTypeEndOfFile, pADC) = 1

\* With "a" failing to open and a/d an argument of its own, a/d is archived.
ArgumentUnderFailedDirectory ==
    /\ cfg.openFail = {pA}
    /\ mpc = "returned"
    /\ Count(written, blockTypeDirectory, pAD) = 1
    /\ Count(written, blockTypeDirectory, pA) = 0

\* A directory whose Directory block has been emitted has been opened and
\* handed to readdirnames.
ReaddirFailed(dir) ==
    /\ dir \in DOMAIN cfg.readdirErr
    /\ cfg.readdirErr[dir].after <= Len(Tree[dir].names)
    /\ DirectoryEmitted(dir)

\* C30  Directory iteration error: a run in which Readdirnames failed on a
\* directory that was opened returns a non-nil error.
C30_ReaddirErrorFatal ==
    (mpc = "returned" /\ \E dir \in DOMAIN cfg.readdirErr : ReaddirFailed(dir)) =>
        runResult # "nil"

\* After a call of Readdirnames that failed, the scanner finishes the unit
\* if a later call returns io.EOF: the names read arrive, the channel is
\* closed and Run returns, a.error being what it was.
ReaddirErrorOnlyLogged ==
    (mpc = "returned" /\ \E dir \in DOMAIN cfg.readdirErr : ReaddirFailed(dir)) =>
        /\ runResult = "nil"
        /\ workInProgress = 0
        /\ \A p \in ArchivedPaths : \E i \in 1..Len(written) : written[i].filePath = p

\* With Readdirnames failing on every call the scanner stays in its range
\* over the channel, the unit is never released and Run does not return.
ReaddirErrorHangs ==
    /\ \E dir \in DOMAIN cfg.readdirErr : cfg.readdirErr[dir].persists
    /\ mpc = "loop"
    /\ workInProgress > 0
    /\ ~ENABLED NextCreate

\* The writeFile goroutine w has left its range loop and called Done.
WriterFinished(w) ==
    /\ writers[w].done
    /\ writers[w].closed
    /\ writers[w].chan = <<>>

\* Nothing of the file of writer w is held back: the bufio.Writer is empty
\* and the file closed.
FlushedAndClosed(w) ==
    /\ ~writers[w].open
    /\ writers[w].buffered = <<>>

\* C31  Extract waits for writers: when Unarchiver.Run has returned nil,
\* every writeFile goroutine started in the run has finished, its wait
\* group is at zero, and every file has been flushed and closed.
C31_ExtractWaitsForWriters ==
    (upc = "returned" /\ uresult = "nil") =>
        /\ uwip = 0
        /\ fileOutputChan = NoFunction
        /\ \A w \in 1..Len(writers) : WriterFinished(w) /\ FlushedAndClosed(w)

\* Run has returned nil after two writers whose blocks were interleaved,
\* and both files have their bytes.
C31_Witness ==
    /\ upc = "returned"
    /\ uresult = "nil"
    /\ Len(writers) = 2
    /\ \A w \in 1..2 : WriterFinished(w)
    /\ pAB \in DOMAIN fs /\ fs[pAB].data = <<104, 105>>
    /\ pADC \in DOMAIN fs /\ fs[pADC].data = <<120>>

\* The StartOfFile blocks of the archive for which os.Create fails: the
\* directory of the path has had no Directory block, or the path itself
\* has had one.
HasDirectoryBefore(k, path) ==
    \E j \in 1..(k - 1) : IsBlock(cfg.blocks[j], blockTypeDirectory, path)

CreateFailStarts ==
    {k \in 1..Len(cfg.blocks) :
        /\ cfg.blocks[k].blockType = blockTypeStartOfFile
        /\ \/ /\ Parent(cfg.blocks[k].filePath) # <<>>
              /\ ~HasDirectoryBefore(k, Parent(cfg.blocks[k].filePath))
           \/ HasDirectoryBefore(k, cfg.blocks[k].filePath)}

CreateFailPaths == {cfg.blocks[k].filePath : k \in CreateFailStarts}

\* The parser can neither read its next block nor will a writer make room
\* for it.
ParserBlocked ==
    /\ upc = "loop"
    /\ ~ENABLED UnarchiverBlock
    /\ ~ENABLED WriteFileBlock

\* C32  Drain-only writer: a writer whose os.Create failed has no file open
\* and holds no bytes, no file appears at its path, and it takes every
\* block sent to it, so that the parser is never left blocked; when the
\* extraction has come to rest Run has returned nil, every writer has
\* finished and the other paths are in the file system with their bytes.
C32_DrainOnlyWriter ==
    cfg \in CreateFailScenarios =>
        /\ ~ParserBlocked
        /\ \A w \in 1..Len(writers) :
              (writers[w].chan # <<>> /\ Head(writers[w].chan).filePath \in CreateFailPaths) =>
                  FlushedAndClosed(w)
        /\ \A p \in CreateFailPaths :
              p \in DOMAIN fs => fs[p].kind = "dir" /\ fs[p].data = <<>>
        /\ uresult \in {"running", "nil"}
        /\ ~ENABLED NextExtract =>
              /\ upc = "returned"
              /\ uresult = "nil"
              /\ \A w \in 1..Len(writers) : WriterFinished(w) /\ FlushedAndClosed(w)
              /\ \A k \in 1..Len(cfg.blocks) :
                    LET p == cfg.blocks[k].filePath IN
                    (k \notin CreateFailStarts /\ p \notin CreateFailPaths
                       /\ cfg.blocks[k].blockType \in {blockTypeStartOfFile, blockTypeDirectory}) =>
                        p \in DOMAIN fs /\ fs[p] = ExpectedFs[p]

\* Run has returned nil on the archive in which a/d is a directory and then
\* a file: a/d is the directory still, and a/b, whose blocks lie between
\* those of a/d, has its bytes.
C32_Witness ==
    /\ cfg \in CreateFailScenarios
    /\ CreateFailPaths = {pAD}
    /\ upc = "returned"
    /\ uresult = "nil"
    /\ fs[pAD].kind = "dir"
    /\ fs[pAB].data = <<104, 105>>
    /\ Len(writers) = 2

\* What reading the input block by block from offset pos comes to when
\* every os.Mkdir succeeds: the error of the first block that has one, nil
\* at the end of the input when every channel has been closed, "waits" at
\* the end when one has not, "blocked" at a Data or EndOfFile block whose
\* path has no channel.  open holds the paths that have a channel and
\* unclosed counts the channels made and not closed.
RECURSIVE Verdict(_, _, _)
Verdict(pos, open, unclosed) ==
    LET r == CHOOSE x \in {ParseBlockAt(pos)} : TRUE IN
    IF r.kind = "end" THEN (IF unclosed = 0 THEN "nil" ELSE "waits")
    ELSE IF r.kind = "error" THEN r.err
    ELSE LET b == r.block IN
         IF b.blockType = blockTypeStartOfFile
           THEN Verdict(r.next, open \cup {b.filePath}, unclosed + 1)
         ELSE IF b.blockType \in {blockTypeData, blockTypeEndOfFile}
           THEN IF b.filePath \notin open THEN "blocked"
                ELSE IF b.blockType = blockTypeData THEN Verdict(r.next, open, unclosed)
                ELSE Verdict(r.next, open \ {b.filePath}, unclosed - 1)
         ELSE IF b.blockType = blockTypeDirectory THEN Verdict(r.next, open, unclosed)
         ELSE IF b.buffer # crc64Checksum(SubSeq(input, 1, r.next - 8)) THEN "ErrCrcMismatch"
         ELSE Verdict(r.next, open, unclosed)

\* How the extraction has ended.
Outcome ==
    IF upc = "returned" THEN uresult
    ELSE IF upc = "blockedOnNilChannel" THEN "blocked"
    ELSE "waits"

\* Every Directory block of the archive names a directory whose parent is
\* the directory extraction runs in or has a Directory block before it.
MkdirsSucceed ==
    \A k \in 1..Len(cfg.blocks) :
        cfg.blocks[k].blockType = blockTypeDirectory =>
            \/ Parent(cfg.blocks[k].filePath) = <<>>
            \/ HasDirectoryBefore(k, Parent(cfg.blocks[k].filePath))

\* C33  DryRun frame: with DryRun set nothing is made or changed in the file
\* system, no writer opens a file or holds bytes, and the extraction of an
\* archive whose directories can all be made ends as the input alone
\* determines, with DryRun set and without: in the same return of Run with
\* nil or the same error, or in the same wait.
C33_DryRunFrame ==
    /\ cfg.DryRun =>
          /\ fs = NoFunction
          /\ \A w \in 1..Len(writers) : FlushedAndClosed(w)
    /\ (MkdirsSucceed /\ ~ENABLED NextExtract) =>
          Outcome = Verdict(Len(fastArchiverHeader), {}, 0)

\* Run has returned nil with DryRun set on an archive of two files, both
\* writers having taken all their blocks, and nothing has been created.
C33_Witness ==
    /\ cfg.DryRun
    /\ cfg \in {[s EXCEPT !.DryRun = TRUE] : s \in InterleavedScenarios}
    /\ upc = "returned"
    /\ uresult = "nil"
    /\ Len(writers) = 2
    /\ \A w \in 1..2 : WriterFinished(w)
    /\ fs = NoFunction

\* Where os.Mkdir fails Run returns its error, and nil with DryRun set.
MkdirFailureDiffers ==
    (cfg.blocks = MkdirFailArchive /\ upc = "returned") =>
        uresult = IF cfg.DryRun THEN "nil" ELSE "ENOENT"

\* A scanner or a reader is at a send, or between two sends of one unit.
SendsToCome ==
    \/ pendingSends # EmptyBag
    \/ BusyScanners # {}
    \/ BusyReaders # {}

\* C34  No send on a closed queue: no step puts a path or a block into a
\* queue that the supervisor has closed, and once directoryScanQueue is
\* closed no decoupled send is pending and no scanner or reader has a send
\* to come.
C34_NoSendOnClosedQueue ==
    /\ [](closed # {} => ~SendsToCome)
    /\ [][/\ Len(directoryScanQueue') > Len(directoryScanQueue) =>
                "directoryScanQueue" \notin closed
          /\ Len(fileReadQueue') > Len(fileReadQueue) => "fileReadQueue" \notin closed
          /\ Len(blockQueue') > Len(blockQueue) => "blockQueue" \notin closed]_vars

\* directoryScanQueue has just been closed after a run that sent two
\* subdirectories through goroutines of their own into a queue of one slot.
C34_Witness ==
    /\ closed = {"directoryScanQueue"}
    /\ pendingSends = EmptyBag
    /\ cfg.tree = TreeTwoDirs
    /\ cfg.DirScanQueueSize = 1
    /\ Count(Emitted, blockTypeDirectory, pAD) = 1
    /\ Count(Emitted, blockTypeDirectory, pAE) = 1

IsNotChecksum(b) == b.blockType # blockTypeChecksum

\* The blocks sent to blockQueue so far, in the order of their sends: those
\* the archive writer has written and those still in the queue.
Sent == SelectSeq(written, IsNotChecksum) \o blockQueue

\* C35  No block lost or duplicated: the blocks written and the blocks
\* queued, taken together, change only by a send that adds its block at the
\* end, so that the archive writer takes the blocks one by one in send
\* order; the output is the header and the frames of the blocks written;
\* blockQueue is closed only when no worker has a block to send; and when
\* Run has returned the queue is empty and every block sent is in the
\* output before the final Checksum block.
C35_NoBlockLostOrDuplicated ==
    /\ [](output = IF mpc = "addDir" THEN <<>>
                    ELSE fastArchiverHeader \o Frames(1, Len(written)))
    /\ []("blockQueue" \in closed => ~SendsToCome)
    /\ [](mpc = "returned" =>
            /\ blockQueue = <<>>
            /\ written # <<>>
            /\ ~IsNotChecksum(written[Len(written)])
            /\ Sent = SelectSeq(SubSeq(written, 1, Len(written) - 1), IsNotChecksum))
    /\ [][\/ Sent' = Sent
          \/ /\ Len(blockQueue') = Len(blockQueue) + 1
             /\ Sent' = Append(Sent, blockQueue'[Len(blockQueue')])
             /\ written' = written]_vars

\* Run has returned after two readers sent the blocks of two files, and
\* the blocks written are the six of the two files and the two Directory
\* blocks, with the final Checksum block after them.
C35_Witness ==
    /\ mpc = "returned"
    /\ cfg.tree = TreeFiles
    /\ cfg.FileReaderCount = MaxFileReaders
    /\ cfg.openFail = {}
    /\ DOMAIN cfg.readErrAt = {}
    /\ Len(Sent) = 8
    /\ Len(written) = 9

\* main is at a call of AddDir that cannot complete: the send on
\* directoryScanQueue finds no room and no scanner runs yet.
AddDirBlocked ==
    /\ mpc = "addDir"
    /\ seedIx < Len(cfg.seeds)
    /\ ~ENABLED AddDir

\* C36  Seeding does not block: no call of AddDir blocks, whatever the
\* number of directories and DirScanQueueSize are, and the run comes to
\* rest only with Run returned.
C36_SeedingDoesNotBlock ==
    /\ ~AddDirBlocked
    /\ ~ENABLED NextCreate => mpc = "returned"

\* With no more directories than directoryScanQueue has slots every AddDir
\* completes and the run comes to rest only with Run returned.
SeedingWithinQueueSize ==
    Len(cfg.seeds) <= cfg.DirScanQueueSize =>
        /\ ~AddDirBlocked
        /\ ~ENABLED NextCreate => mpc = "returned"

\* The third AddDir of three blocks on a queue of two slots, with the
\* counter raised for the first two.
ThirdAddDirBlocked ==
    /\ AddDirBlocked
    /\ seedIx = 2
    /\ Len(cfg.seeds) = 3
    /\ workInProgress = 2

\* ---------------------------------------------------------------------
\* C37

\* C37  Extract always returns: for every finite input, when extraction has
\* come to rest Run has returned, nil or an error; it is neither left in
\* workInProgress.Wait() because the input ended while a path was still
\* open, nor anywhere else.
C37_ExtractAlwaysReturns ==
    ~ENABLED NextExtract => (upc = "returned" /\ uresult # "running")

\* The part of C37 that holds: extraction at rest without a result is in
\* one of two places, the Wait() after the loop with a writer whose channel
\* was never closed, or the send on the nil channel of an unknown path.
RestsOnlyInWaitOrNilSend ==
    (~ENABLED NextExtract /\ upc # "returned") =>
        \/ /\ upc = "wait"
           /\ uwip > 0
           /\ \E w \in 1..Len(writers) : ~writers[w].closed /\ ~writers[w].done
        \/ upc = "blockedOnNilChannel"

\* The input has ended at a block boundary with a/b still open, and Run
\* waits for its writer.
WaitsForOpenPath ==
    /\ ~ENABLED NextExtract
    /\ upc = "wait"
    /\ rpos = Len(input)
    /\ EndsAtBoundary
    /\ pAB \in DOMAIN fileOutputChan

\* ---------------------------------------------------------------------
\* C38

\* FileReaders that hold a path: taken from fileReadQueue and not yet past
\* its EndOfFile.
Holding(path) ==
    BagCardinality([r \in {x \in BagToSet(readers) :
                             x.path = path /\ x.pc \in {"sendStart", "sendData", "sendEnd"}}
                      |-> readers[r]])

\* StartOfFile blocks of a path in the archive not yet followed by their
\* EndOfFile.
OpenInArchive(path) ==
    Count(written, blockTypeStartOfFile, path) - Count(written, blockTypeEndOfFile, path)

\* C38  One open StartOfFile per path: in the archive written so far no
\* path has two StartOfFile blocks without an EndOfFile between them, and
\* no path is held by two FileReaders at once, whatever the seed list.
C38_OneOpenStartPerPath ==
    \A P \in FilePaths : OpenInArchive(P) <= 1 /\ Holding(P) <= 1

\* The same for seed lists without a repeated or nested seed.
OneOpenStartTopLevelSeeds ==
    (cfg \in PlainScenarios \cup TinyScenarios \cup ExcludeScenarios \cup SymlinkScenarios) =>
        C38_OneOpenStartPerPath

\* a/d/c, reached from the seed a and again from the seed a/d, is open
\* twice in the archive.
NestedSeedOpensTwice ==
    /\ cfg.seeds = <<pA, pAD>>
    /\ OpenInArchive(pADC) = 2

\* a/b, reached twice from the seed a given twice, is open twice in the
\* archive.
RepeatedSeedOpensTwice ==
    /\ cfg.seeds = <<pA, pA>>
    /\ OpenInArchive(pAB) = 2

\* ---------------------------------------------------------------------
\* C39

\* What the writers' filesystem operations act on: the files, and for each
\* writer the file it has open and the bytes in its bufio.Writer.
FileState ==
    <<fs, [w \in 1..Len(writers) |->
             <<writers[w].open, writers[w].file, writers[w].buffered>>]>>

\* A writer creates, chowns, chmods, writes, flushes or closes a file.
FileOperation == WriteFileBlock /\ FileState' # FileState

\* A writer in its range over a channel that is empty and not closed.
BlockedOnChannel(w) ==
    /\ ~writers[w].done
    /\ writers[w].chan = <<>>
    /\ ~writers[w].closed

\* C39  Quiescence after an error return: once Run has returned a non-nil
\* error no writer has a filesystem operation left to perform, and no
\* writer is left blocked on its channel.
C39_QuiescenceAfterError ==
    Failed =>
        /\ ~ENABLED FileOperation
        /\ \A w \in 1..Len(writers) : ~BlockedOnChannel(w)

\* The same after a nil return, where it holds: Run has waited for the
\* writers.
QuiescenceAfterNilReturn ==
    (upc = "returned" /\ uresult = "nil") =>
        /\ ~ENABLED FileOperation
        /\ \A w \in 1..Len(writers) : ~BlockedOnChannel(w)

\* Run has returned ErrCrcMismatch and the writer of a/b still has its
\* file to flush and close.
OperationAfterErrorReturn ==
    /\ upc = "returned"
    /\ uresult = "ErrCrcMismatch"
    /\ ENABLED FileOperation

\* Run has returned an error and a writer is blocked on its channel.
BlockedAfterErrorReturn ==
    /\ Failed
    /\ ~ENABLED NextExtract
    /\ \E w \in 1..Len(writers) : BlockedOnChannel(w)

\* ---------------------------------------------------------------------
\* C40

\* C40  Extraction stays inside its directory: every directory and file
\* that extraction has made, written, chowned or chmoded, and every file a
\* writer has open, is at a location inside the directory extraction runs
\* in, whatever the paths of the blocks.
C40_StaysInside ==
    /\ \A loc \in DOMAIN fs : ~Outside(loc)
    /\ \A w \in 1..Len(writers) : writers[w].open => ~Outside(writers[w].file)

\* No path of the archive has the element "..".
NoDotDot ==
    \A k \in 1..Len(cfg.blocks) :
        \A i \in 1..Len(Components(cfg.blocks[k].filePath)) :
            Components(cfg.blocks[k].filePath)[i] # DotDot

\* The same for archives whose paths have no ".." element, and for a path
\* whose ".." elements do not lead out: a/../b is the file b.
StaysInsideWithoutDotDot ==
    /\ NoDotDot => C40_StaysInside
    /\ pAUpB \notin DOMAIN fs
    /\ (\E k \in 1..Len(cfg.blocks) : cfg.blocks[k].filePath = pAUpB) => C40_StaysInside

\* The file ../a/b has been written, with its bytes, in the directory
\* ../a that extraction made.
WrittenOutside ==
    /\ upc = "returned"
    /\ uresult = "nil"
    /\ pUpA \in DOMAIN fs
    /\ fs[pUpA].kind = "dir"
    /\ pUpAB \in DOMAIN fs
    /\ fs[pUpAB].data = <<104, 105>>

\* a/../../b has been written as ../b.
WrittenOutsideThroughDirectory ==
    /\ upc = "returned"
    /\ uresult = "nil"
    /\ Join(DotDot, nB) \in DOMAIN fs
    /\ fs[Join(DotDot, nB)].data = <<104, 105>>

\* The directory above the one extraction runs in has been chowned.
DirectoryAboveChowned ==
    /\ DotDot \in DOMAIN fs
    /\ fs[DotDot].uid = ToU32(1000)

====
